---------------------------- MODULE Spec2Model ----------------------------
(***************************************************************************)
(* PEAT (Psychophysical Estimation of Auditory Thresholds).                *)
(*                                                                         *)
(* A model of the adaptive 2IAFC threshold task: the staircase that tracks *)
(* the level, the session parameters the controller reads, the level       *)
(* pipeline (RETSPL lookup, sound-field summation, calibration offset) and *)
(* audio playback with its clipping check.                                 *)
(*                                                                         *)
(* Levels are fixed-point integers.  Staircase levels and step sizes are   *)
(* whole dB (the controller converts step sizes with int()).  Everything   *)
(* downstream of the RETSPL table is in units of 1/10000 dB.              *)
(*                                                                         *)
(* models/staircase.py and models/calmodel.py are imported by the          *)
(* controller but are not part of the source tree at hand; the operators   *)
(* for them follow the written specification (sections 4.1 and 4.3).       *)
(***************************************************************************)
EXTENDS Integers, Sequences, FiniteSets, TLC

VARIABLES
    sessionpars,    \* controller.sessionpars: the dict of tk variables
    staircase,      \* controller.staircase: the Staircase object
    sessionpars_model, \* what _save_sessionpars last wrote to file
    calmodel,       \* controller.calmodel: the calibration unit
    a,              \* controller.a: the Audio object
    sd,             \* the sounddevice module: defaults and what was played
    msgs,           \* titles of the message boxes shown, in order
    exc,            \* the exception the last call or handler ended with
    call,           \* a function under examination: arguments and result
    app,            \* the attributes of the Application window
    csvfile         \* the rows csvmodel has written, in order

vars == <<sessionpars, staircase, sessionpars_model, calmodel, a, sd, msgs,
          exc, call, app, csvfile>>

\* Levels in dB as fixed-point integers with four decimals.
dB(whole) == whole * 10000
TenthdB(tenths) == tenths * 1000

Abs(x) == IF x < 0 THEN -x ELSE x

---------------------------------------------------------------------------
(* Text of an entry widget.  A text is a sequence of tokens: a maximal     *)
(* run of sign and digits (num), a comma, a blank, or any other run of     *)
(* characters (junk).                                                      *)

Num(n) == [k |-> "num", v |-> n]
Comma == [k |-> "comma", v |-> 0]
Space == [k |-> "space", v |-> 0]
Junk == [k |-> "junk", v |-> 0]

Min2(x, y) == IF x <= y THEN x ELSE y
Max2(x, y) == IF x >= y THEN x ELSE y

\* str.split(', '): the fields between non-overlapping ", " separators.
RECURSIVE SplitFrom(_, _, _)
SplitFrom(text, i, field) ==
    IF i > Len(text) THEN <<field>>
    ELSE IF i < Len(text) /\ text[i] = Comma /\ text[i + 1] = Space
         THEN <<field>> \o SplitFrom(text, i + 2, <<>>)
         ELSE SplitFrom(text, i + 1, Append(field, text[i]))

split_comma_space(text) == SplitFrom(text, 1, <<>>)

\* str.strip() of the blanks on both sides of a field.
RECURSIVE StripLeft(_)
StripLeft(f) ==
    IF f # <<>> /\ Head(f) = Space THEN StripLeft(Tail(f)) ELSE f

RECURSIVE StripRight(_)
StripRight(f) ==
    IF f # <<>> /\ f[Len(f)] = Space
    THEN StripRight(SubSeq(f, 1, Len(f) - 1))
    ELSE f

\* int(val): the value of a field that is one number, blanks around it
\* ignored; anything else raises ValueError.
int_ok(f) ==
    LET g == StripRight(StripLeft(f))
    IN  Len(g) = 1 /\ g[1].k = "num"

int_val(f) == StripRight(StripLeft(f))[1].v

\* [int(val) for val in text.split(', ')]
string_to_list(text) ==
    LET fields == split_comma_space(text)
    IN  IF \A i \in 1..Len(fields) : int_ok(fields[i])
        THEN [ok |-> TRUE, val |-> [i \in 1..Len(fields) |-> int_val(fields[i])]]
        ELSE [ok |-> FALSE, val |-> <<>>]

\* str.split(): the runs between blanks, empty runs dropped.
RECURSIVE SplitBlanksFrom(_, _, _)
SplitBlanksFrom(text, i, field) ==
    LET done == IF field = <<>> THEN <<>> ELSE <<field>>
    IN  IF i > Len(text) THEN done
        ELSE IF text[i] = Space
             THEN done \o SplitBlanksFrom(text, i + 1, <<>>)
             ELSE SplitBlanksFrom(text, i + 1, Append(field, text[i]))

split_blanks(text) == SplitBlanksFrom(text, 1, <<>>)

---------------------------------------------------------------------------
(* Staircase (specification section 4.1).                                  *)

NoStaircase ==
    [ok |-> FALSE, current_level |-> 0, step_sizes |-> <<>>, step_index |-> 0,
     direction |-> "NONE", consecutive_correct |-> 0,
     consecutive_incorrect |-> 0, reversals |-> <<>>, trial_count |-> 0,
     rapid_descend_active |-> FALSE, min_level |-> 0, max_level |-> 0,
     target_reversals |-> 0, n_up |-> 0, n_down |-> 0, status |-> FALSE,
     datapoints |-> <<>>]

\* Construction rejects a malformed configuration.
ValidConfig(step_sizes, nUp, nDown, nReversals, min_val, max_val) ==
    /\ Len(step_sizes) > 0
    /\ \A i \in 1..Len(step_sizes) : step_sizes[i] > 0
    /\ nUp > 0
    /\ nDown > 0
    /\ nReversals > 0
    /\ min_val < max_val

\* Staircase(start_val, step_sizes, nUp, nDown, nTrials, nReversals,
\*           rapid_descend, min_val, max_val): the initial state.
Staircase(start_val, step_sizes, nUp, nDown, nTrials, nReversals, rapid_descend, min_val, max_val) ==
    IF ~ValidConfig(step_sizes, nUp, nDown, nReversals, min_val, max_val)
    THEN NoStaircase
    ELSE [ok |-> TRUE, current_level |-> start_val,
          step_sizes |-> step_sizes, step_index |-> 0,
          direction |-> "NONE", consecutive_correct |-> 0,
          consecutive_incorrect |-> 0, reversals |-> <<>>,
          trial_count |-> nTrials,
          rapid_descend_active |-> rapid_descend,
          min_level |-> min_val, max_level |-> max_val,
          target_reversals |-> nReversals, n_up |-> nUp, n_down |-> nDown,
          status |-> TRUE, datapoints |-> <<>>]

\* The step size in use: step_sizes[step_index], counted from 0.
active_step_size(s) == s.step_sizes[s.step_index + 1]

\* Step 5: the level kept within [min_level, max_level].
ClampUpperOnly(level, lo, hi) == Min2(level, hi)

Clamp(level, lo, hi) == Max2(lo, Min2(level, hi))

\* Step 3: the rule in force, 1-up/1-down during rapid descend.
down_rule(s) == IF s.rapid_descend_active THEN 1 ELSE s.n_down
up_rule(s) == IF s.rapid_descend_active THEN 1 ELSE s.n_up

\* Step 6: the step index after a scored reversal, pinned at the last size.
NextStepIndex(s) == Min2(s.step_index + 1, Len(s.step_sizes) - 1)

\* Step 7: running until the target number of reversals is recorded.
StillRunningOffByOne(reversals, target) == Len(reversals) <= target

StillRunning(reversals, target) == Len(reversals) < target

\* Step 6: a direction change during rapid descend is not scored.
ScoredReversal(s, dirChange) == dirChange /\ ~s.rapid_descend_active

\* Step 6: a scored reversal records the level before the change.
ReversalLevelAfterStep(s, newLevel) == newLevel

ReversalLevel(s, newLevel) == s.current_level

\* Step 4: the level after the step, before it is clamped.
SteppedLevel(s, stepDown, stepUp) ==
    IF stepDown THEN s.current_level - active_step_size(s)
    ELSE IF stepUp THEN s.current_level + active_step_size(s)
    ELSE s.current_level

\* add_response(outcome), outcome +1 (correct) or -1 (incorrect).
add_response(s, outcome) ==
    LET cc == IF outcome = 1 THEN s.consecutive_correct + 1 ELSE 0
        ci == IF outcome = -1 THEN s.consecutive_incorrect + 1 ELSE 0
        stepDown == outcome = 1 /\ cc >= down_rule(s)
        stepUp == outcome = -1 /\ ci >= up_rule(s)
        newDir == IF stepDown THEN "DOWN"
                  ELSE IF stepUp THEN "UP" ELSE s.direction
        level == Clamp(SteppedLevel(s, stepDown, stepUp),
                       s.min_level, s.max_level)
        dirChange == /\ stepDown \/ stepUp
                     /\ s.direction # "NONE"
                     /\ s.direction # newDir
        scored == ScoredReversal(s, dirChange)
        revs == IF scored THEN Append(s.reversals, ReversalLevel(s, level))
                ELSE s.reversals
    IN  [s EXCEPT
            !.trial_count = @ + 1,
            !.consecutive_correct = IF stepDown THEN 0 ELSE cc,
            !.consecutive_incorrect = IF stepUp THEN 0 ELSE ci,
            !.direction = newDir,
            !.current_level = level,
            !.rapid_descend_active = @ /\ ~dirChange,
            !.reversals = revs,
            !.step_index = IF scored THEN NextStepIndex(s) ELSE @,
            !.status = StillRunning(revs, s.target_reversals),
            !.datapoints = Append(@, [level |-> s.current_level,
                                       response |-> outcome,
                                       reversal |-> scored])]

---------------------------------------------------------------------------
(* StimulusModel: the RETSPL table and the presentation level.             *)

\* Frequencies are in tenths of a hertz, so that the key 31.5 is 315.
Hz(f) == f * 10

\* self.RETSPL: <<frequency, level in tenths of a dB>>.
RETSPL_table ==
    <<<<200, 781>>, <<250, 687>>, <<315, 595>>, <<400, 511>>, <<500, 440>>,
      <<630, 375>>, <<800, 315>>, <<1000, 265>>, <<1250, 221>>,
      <<1600, 179>>, <<2000, 144>>, <<2500, 114>>, <<3150, 84>>,
      <<4000, 58>>, <<5000, 38>>, <<6300, 21>>, <<7500, 12>>, <<8000, 10>>,
      <<10000, 8>>, <<12500, 19>>, <<15000, 10>>, <<16000, 5>>,
      <<20000, -15>>, <<25000, -31>>, <<30000, -40>>, <<40000, -38>>,
      <<60000, 14>>, <<63000, 25>>, <<80000, 68>>, <<90000, 84>>,
      <<100000, 98>>, <<112000, 115>>, <<140000, 232>>, <<160000, 437>>>>

RETSPL_keys == {RETSPL_table[i][1] : i \in 1..Len(RETSPL_table)}

\* self.RETSPL[freq]: the table value, KeyError for any other frequency.
RETSPL_nearest(freq) ==
    LET i == CHOOSE j \in 1..Len(RETSPL_table) :
                 \A k \in 1..Len(RETSPL_table) :
                     Abs(RETSPL_table[j][1] - freq) <= Abs(RETSPL_table[k][1] - freq)
    IN  [raised |-> "", val |-> TenthdB(RETSPL_table[i][2])]

RETSPL(freq) ==
    IF freq \in RETSPL_keys
    THEN LET i == CHOOSE j \in 1..Len(RETSPL_table) : RETSPL_table[j][1] = freq
         IN  [raised |-> "", val |-> TenthdB(RETSPL_table[i][2])]
    ELSE [raised |-> "KeyError", val |-> 0]

\* 10 * log10(k) in 1/10000 dB, for the small integers a power ratio has.
TenLog10 ==
    <<0, 30103, 47712, 60206, 69897, 77815, 84510, 90309, 95424, 100000>>

\* A power is 10^(spl/10) times the ratio num/den.
Power(spl, num, den) == [spl |-> spl, num |-> num, den |-> den]

RECURSIVE Gcd(_, _)
Gcd(x, y) == IF y = 0 THEN x ELSE Gcd(y, x % y)

Reduced(pw) ==
    LET g == Gcd(Abs(pw.num), Abs(pw.den))
    IN  IF g = 0 THEN pw ELSE [pw EXCEPT !.num = pw.num \div g, !.den = pw.den \div g]

\* calc_RMS_based_on_sources(desired_SPL, num_sources)
calc_RMS_amplitude_ratio(desired_SPL, num_sources) ==
    IF num_sources = 0
    THEN [raised |-> "ZeroDivisionError", val |-> 0]
    ELSE [raised |-> "", val |-> desired_SPL - 2 * TenLog10[num_sources]]

calc_RMS_based_on_sources(desired_SPL, num_sources) ==
    LET power_single == Power(desired_SPL, 1, 1)
        power_total == Power(desired_SPL, power_single.num * num_sources, 1)
        diff_power == Power(desired_SPL, power_total.num - power_single.num, 1)
    IN  IF num_sources = 0
        THEN [raised |-> "ZeroDivisionError", val |-> 0]
        ELSE LET cf_power == Power(desired_SPL, diff_power.num, num_sources)
                 new_power_single ==
                     Reduced(Power(desired_SPL,
                                   power_single.num * cf_power.den - cf_power.num,
                                   cf_power.den))
             IN  [raised |-> "",
                  val |-> new_power_single.spl
                          + TenLog10[new_power_single.num]
                          - TenLog10[new_power_single.den]]

\* calc_presentation_lvl(stair_lvl, freq) with num_stim_chans channels:
\* the level, and how often the summation was computed.
calc_presentation_lvl(stair_lvl, freq, num_stim_chans) ==
    LET my_level == stair_lvl
        retspl == RETSPL(freq)
    IN  IF retspl.raised # ""
        THEN [raised |-> retspl.raised, val |-> 0, summations |-> 0]
        ELSE LET retspl_adj_level == my_level + retspl.val
                 multichan_lvl ==
                     calc_RMS_based_on_sources(retspl_adj_level, num_stim_chans)
             IN  [raised |-> multichan_lvl.raised, val |-> multichan_lvl.val,
                  summations |-> 1]

---------------------------------------------------------------------------
(* CalModel (specification section 4.3).                                   *)

\* calc_offset(): slm_offset = slm_reading - cal_level_dB, kept for reuse.
offset_inverted(slm_reading, playback_level) == playback_level - slm_reading

compute_offset(slm_reading, playback_level) == slm_reading - playback_level

\* calc_level(desired_spl): the device level, desired_spl - slm_offset.
to_device_level(desired_spl, offset) == desired_spl - offset

\* A level conversion is refused until an offset has been computed.
calc_level(cm, sp, desired_spl) ==
    IF ~cm.calibrated
    THEN [raised |-> "UncalibratedState", sp |-> sp]
    ELSE [raised |-> "",
          sp |-> [sp EXCEPT !.desired_level_dB = desired_spl,
                            !.adjusted_level_dB =
                                to_device_level(desired_spl, sp.slm_offset)]]

calc_offset(cm, sp) ==
    [cm |-> [cm EXCEPT !.calibrated = TRUE],
     sp |-> [sp EXCEPT !.slm_offset =
                           compute_offset(sp.slm_reading, sp.cal_level_dB)]]

---------------------------------------------------------------------------
(* Audio (models/audiomodel.py).                                           *)
(*                                                                         *)
(* A signal is its shape and, per channel, its smallest sample, its        *)
(* largest sample and its mean, in 1/10000 of full scale: all that         *)
(* levelling, the clipping check and the channel truncation read.          *)

FullScale == 10000

Chan(lo, hi, mean) == [lo |-> lo, hi |-> hi, mean |-> mean]
Signal(nsamples, ndim, chans) ==
    [nsamples |-> nsamples, ndim |-> ndim, chans |-> chans]

NoAudio ==
    [ok |-> FALSE, signal |-> [nsamples |-> 0, ndim |-> 1, chans |-> <<>>],
     fs |-> 0, num_channels |-> 0, level |-> 0, has_level |-> FALSE,
     device_id |-> 0, routing |-> <<>>,
     temp |-> [nsamples |-> 0, ndim |-> 1, chans |-> <<>>], num_outputs |-> 0]

NoSd == [device |-> 0, samplerate |-> 0, played |-> <<>>]

\* The audio devices of the machine: device id -> max_output_channels.
\* Any other id is a PortAudioError.
DeviceOutputs == <<1, 2>>

RECURSIVE Pow10(_)
Pow10(n) == IF n = 0 THEN 1 ELSE 10 * Pow10(n - 1)

\* 1000 * 10^(r/20) for r = 0..20.
Mag20 ==
    <<1000, 1122, 1259, 1413, 1585, 1778, 1995, 2239, 2512, 2818, 3162,
      3548, 3981, 4467, 5012, 5623, 6310, 7079, 7943, 8913, 10000>>

\* general.db2mag(db) = 10**(db/20) as [m, q]: the magnitude is
\* m/1000 * 10^q, m interpolated between whole decibels.
db2mag(db) ==
    LET whole == db \div 10000
        frac == db % 10000
        r == whole % 20
    IN  [m |-> Mag20[r + 1] + ((Mag20[r + 2] - Mag20[r + 1]) * frac) \div 10000,
         q |-> whole \div 20]

\* sample * mag
Scaled(x, mag) ==
    LET p == Abs(x) * mag.m
        y == IF mag.q >= 0 THEN (p \div 1000) * Pow10(mag.q)
             ELSE p \div (1000 * Pow10(-mag.q))
    IN  IF x < 0 THEN -y ELSE y

ScaledChan(c, mag) ==
    Chan(Scaled(c.lo, mag), Scaled(c.hi, mag), Scaled(c.mean, mag))

\* One channel with its DC offset removed, normalised to +/-1 and divided
\* by the number of channels.
NormalisedChan(c, n) ==
    LET lo == c.lo - c.mean
        hi == c.hi - c.mean
        peak == Max2(Abs(lo), Abs(hi))
    IN  Chan(((lo * FullScale) \div peak) \div n,
             ((hi * FullScale) \div peak) \div n, 0)

\* np.max(np.abs(sig))
MaxAbs(sig) ==
    LET peaks == {Max2(Abs(sig.chans[i].lo), Abs(sig.chans[i].hi)) :
                     i \in 1..Len(sig.chans)}
    IN  CHOOSE p \in peaks : \A o \in peaks : o <= p

\* Audio(audio, **kwargs).  audio is what the caller passes: its type
\* (Path, ndarray or anything else), whether the file exists, and the
\* signal and sampling rate it holds.
Audio(audio, kwargs) ==
    LET made(sig, fs) ==
            [ok |-> TRUE, signal |-> sig, fs |-> fs,
             num_channels |-> IF sig.ndim = 2 THEN Len(sig.chans) ELSE 1,
             level |-> 0, has_level |-> FALSE, device_id |-> 0,
             routing |-> <<>>, temp |-> Signal(0, 1, <<>>), num_outputs |-> 0]
    IN  IF audio.type = "Path"
        THEN IF ~audio.exists
             THEN [raised |-> "FileNotFoundError", a |-> NoAudio]
             ELSE [raised |-> "", a |-> made(audio.signal, audio.fs)]
        ELSE IF audio.type = "ndarray"
        THEN IF ~kwargs.has_sampling_rate
             THEN [raised |-> "MissingSamplingRate", a |-> NoAudio]
             ELSE [raised |-> "", a |-> made(audio.signal, kwargs.sampling_rate)]
        ELSE [raised |-> "InvalidAudioType", a |-> NoAudio]

\* _set_level(): the level applied to self.temp, or, with no level, each
\* channel normalised.
_set_level(ao) ==
    IF ~ao.has_level
    THEN [ao EXCEPT !.temp.chans =
             [i \in 1..Len(ao.temp.chans) |->
                 NormalisedChan(ao.temp.chans[i], ao.num_channels)]]
    ELSE LET mag == db2mag(ao.level)
         IN  [ao EXCEPT !.temp.chans =
                 [i \in 1..Len(ao.temp.chans) |->
                     ScaledChan(ao.temp.chans[i], mag)]]

\* _check_clipping(): whether Clipping is raised.
_check_clipping_no_abs(ao) ==
    LET highs == {ao.temp.chans[i].hi : i \in 1..Len(ao.temp.chans)}
    IN  (CHOOSE p \in highs : \A o \in highs : o <= p) > FullScale

_check_clipping(ao) == MaxAbs(ao.temp) > FullScale

\* No truncation: every channel handed on, whatever the device has.
_check_channels_and_routing_kept(ao) == ao

\* _check_channels_and_routing(): the channels and the routing cut down to
\* the outputs the device has.
_check_channels_and_routing(ao) ==
    IF ao.num_outputs < ao.num_channels
    THEN LET cut == SubSeq(ao.temp.chans, 1,
                           Min2(ao.num_outputs, Len(ao.temp.chans)))
         IN  [ao EXCEPT !.temp.chans = cut,
                        !.routing = SubSeq(ao.routing, 1,
                                           Min2(Len(cut), Len(ao.routing)))]
    ELSE ao

\* play(level, device_id, routing): the Audio object and sounddevice
\* afterwards, and the exception raised, if any.
play(ao, sdev, level, has_level, device_id, routing) ==
    LET a1 == [ao EXCEPT !.level = level, !.has_level = has_level,
                         !.device_id = device_id, !.routing = routing,
                         !.temp = ao.signal]
        sd1 == [sdev EXCEPT !.device = device_id]
    IN  IF device_id \notin 1..Len(DeviceOutputs)
        THEN [a |-> a1, sd |-> sd1, raised |-> "InvalidAudioDevice"]
        ELSE
        LET a2 == [a1 EXCEPT !.num_outputs = DeviceOutputs[device_id]]
            sd2 == [sd1 EXCEPT !.samplerate = ao.fs]
        IN  IF a2.num_channels # Len(routing) \/ routing = <<>>
            THEN [a |-> a2, sd |-> sd2, raised |-> "InvalidRouting"]
            ELSE
            IF a2.temp.nsamples = 0 \/ a2.temp.chans = <<>>
            THEN [a |-> a2, sd |-> sd2, raised |-> "ValueError"]
            ELSE
            LET a3 == _set_level(a2)
            IN  IF _check_clipping(a3)
                THEN [a |-> a3, sd |-> sd2, raised |-> "Clipping"]
                ELSE IF a3.num_outputs < a3.num_channels /\ a3.temp.ndim = 1
                THEN [a |-> a3, sd |-> sd2, raised |-> "IndexError"]
                ELSE
                LET a4 == _check_channels_and_routing(a3)
                IN  [a |-> a4,
                     sd |-> [sd2 EXCEPT !.played =
                                Append(@, [data |-> a4.temp,
                                           mapping |-> a4.routing])],
                     raised |-> ""]

---------------------------------------------------------------------------
(* Session parameters.                                                     *)

Steps_10_5_2 == <<Num(10), Comma, Space, Num(5), Comma, Space, Num(2)>>
Steps_4 == <<Num(4)>>

Freqs_500_1000 == <<Num(500), Comma, Space, Num(1000)>>
Freqs_500_1000_2000_4000 ==
    <<Num(500), Comma, Space, Num(1000), Comma, Space, Num(2000), Comma,
      Space, Num(4000)>>

DefaultSessionPars ==
    [subject |-> "P1234", condition |-> "unit_testing", disp_plots |-> 0,
     num_stim_chans |-> 1, test_freqs |-> Freqs_500_1000_2000_4000,
     duration |-> 2,
     starting_level |-> 30, min_level |-> -50, max_level |-> 90,
     step_sizes |-> Steps_10_5_2, num_reversals |-> 5,
     rapid_descend |-> "Yes", rapid_descend_bool |-> TRUE,
     audio_device |-> 2, channel_routing |-> <<Num(1)>>,
     cal_level_dB |-> dB(-30), slm_reading |-> dB(70),
     slm_offset |-> dB(100), adjusted_level_dB |-> dB(-25),
     desired_level_dB |-> dB(75)]

NoCall == [op |-> "", args |-> <<>>, done |-> FALSE, raised |-> "", val |-> 0,
           summations |-> 0]

\* Application.__init__.  presented is history, not a field of the program:
\* the number of runs of _new_trial that returned since add_response was
\* last called.  log is history too: the steps _new_trial has taken in
\* its latest run, in the order the code took them ("waveform" is
\* self.stim handed to present_audio).  selected is history as well:
\* whether _on_1 or _on_2 has run since _new_trial was last entered.
NewApplication ==
    [alive |-> TRUE, first_run_flag |-> TRUE, start_enabled |-> TRUE,
     trial |-> 0, freqs |-> <<>>, NUM_FREQS |-> 0, current_freq |-> 0,
     stim |-> Signal(0, 1, <<>>), stim_interval |-> 0, response |-> 0,
     keys_bound |-> FALSE, bind_pending |-> 0, progress_steps |-> 0,
     dialogs |-> {}, entries_typed |-> 0, presented |-> 0, log |-> <<>>,
     selected |-> FALSE]

\* _save_sessionpars(): every runtime parameter is written to file.
save_sessionpars(sp) == sp

\* The state of everything a specification leaves alone.
IdleInit ==
    /\ sessionpars_model = DefaultSessionPars
    /\ calmodel = [calibrated |-> FALSE]
    /\ a = NoAudio
    /\ sd = NoSd
    /\ msgs = <<>>
    /\ exc = ""
    /\ call = NoCall
    /\ app = NewApplication
    /\ csvfile = <<>>

\* The arguments start_new_run passes to Staircase.
NewStaircaseOneDown(sp) ==
    LET steps == string_to_list(sp.step_sizes)
    IN  IF ~steps.ok THEN NoStaircase
        ELSE Staircase(sp.starting_level, steps.val, 1, 1, 0,
                       sp.num_reversals, sp.rapid_descend_bool,
                       sp.min_level, sp.max_level)

NewStaircaseRepaired(sp) ==
    LET steps == string_to_list(sp.step_sizes)
    IN  IF ~steps.ok THEN NoStaircase
        ELSE Staircase(sp.starting_level,
                       [i \in 1..Len(steps.val) |-> Max2(1, steps.val[i])],
                       1, 2, 0, Max2(1, sp.num_reversals),
                       sp.rapid_descend_bool, sp.min_level,
                       Max2(sp.max_level, sp.min_level + 1))

NewStaircaseNoRapid(sp) ==
    LET steps == string_to_list(sp.step_sizes)
    IN  IF ~steps.ok THEN NoStaircase
        ELSE Staircase(sp.starting_level, steps.val, 1, 2, 0,
                       sp.num_reversals, FALSE,
                       sp.min_level, sp.max_level)

NewStaircase(sp) ==
    LET steps == string_to_list(sp.step_sizes)
    IN  IF ~steps.ok THEN NoStaircase
        ELSE Staircase(sp.starting_level, steps.val, 1, 2, 0,
                       sp.num_reversals, sp.rapid_descend_bool,
                       sp.min_level, sp.max_level)

---------------------------------------------------------------------------
(* Application (controller.py).  A handler is an operator on the world:    *)
(* the record of all the objects the controller holds.  w.exc names the    *)
(* exception a handler ended with, "" when it returned.                    *)

FS == 48000

INTERVALS == {1, 2}

World ==
    [sp |-> sessionpars, st |-> staircase, spm |-> sessionpars_model,
     cm |-> calmodel, a |-> a, sd |-> sd, msgs |-> msgs, exc |-> exc,
     app |-> app, csv |-> csvfile]

Commit(w) ==
    /\ sessionpars' = w.sp
    /\ staircase' = w.st
    /\ sessionpars_model' = w.spm
    /\ calmodel' = w.cm
    /\ a' = w.a
    /\ sd' = w.sd
    /\ msgs' = w.msgs
    /\ exc' = w.exc
    /\ app' = w.app
    /\ csvfile' = w.csv

Raise(w, name) == [w EXCEPT !.exc = name]
ShowMessage(w, title) == [w EXCEPT !.msgs = Append(@, title)]
ShowDialog(w, name) == [w EXCEPT !.app.dialogs = @ \cup {name}]

\* _save_sessionpars()
_save_sessionpars(w) == [w EXCEPT !.spm = save_sessionpars(w.sp)]

\* _calc_offset()
_calc_offset(w) ==
    LET r == calc_offset(w.cm, w.sp)
    IN  _save_sessionpars([w EXCEPT !.cm = r.cm, !.sp = r.sp])

\* _calc_level(desired_spl)
_calc_level_swallowed(w, desired_spl) ==
    LET r == calc_level(w.cm, w.sp, desired_spl)
    IN  IF r.raised # "" THEN w
        ELSE _save_sessionpars([w EXCEPT !.sp = r.sp])

\* The conversion of the level the run started at, whatever the level
\* handed over.
_calc_level_of_start(w, desired_spl) ==
    LET r == calc_level(w.cm, w.sp, dB(w.sp.starting_level))
    IN  IF r.raised # "" THEN Raise(w, r.raised)
        ELSE _save_sessionpars([w EXCEPT !.sp = r.sp])

_calc_level(w, desired_spl) ==
    LET r == calc_level(w.cm, w.sp, desired_spl)
    IN  IF r.raised # "" THEN Raise(w, r.raised)
        ELSE _save_sessionpars([w EXCEPT !.sp = r.sp])

\* _format_routing(routing)
_format_routing(routing) ==
    LET fields == split_blanks(routing)
    IN  IF \A i \in 1..Len(fields) : int_ok(fields[i])
        THEN [ok |-> TRUE, val |-> [i \in 1..Len(fields) |-> int_val(fields[i])]]
        ELSE [ok |-> FALSE, val |-> <<>>]

\* _play(pres_level)
_play(w, pres_level) ==
    LET routing == _format_routing(w.sp.channel_routing)
    IN  IF ~w.a.ok THEN Raise(w, "AttributeError")
        ELSE IF ~routing.ok THEN Raise(w, "ValueError")
        ELSE
        LET r == play(w.a, w.sd, pres_level, TRUE, w.sp.audio_device,
                      routing.val)
            w1 == [w EXCEPT !.a = r.a, !.sd = r.sd]
        IN  IF r.raised = "" THEN w1
            ELSE IF r.raised = "InvalidAudioDevice"
            THEN ShowDialog(ShowMessage(w1, "Invalid Device"), "audio")
            ELSE IF r.raised = "InvalidRouting"
            THEN ShowDialog(ShowMessage(w1, "Invalid Routing"), "audio")
            ELSE IF r.raised = "Clipping"
            THEN ShowMessage(w1, "Clipping")
            ELSE Raise(w1, r.raised)

\* _create_audio_object(audio, **kwargs): the world, and the exception
\* passed on to present_audio.
_create_audio_object(w, audio, kwargs) ==
    LET c == Audio(audio, kwargs)
    IN  IF c.raised = ""
        THEN [w |-> [w EXCEPT !.a = c.a], raised |-> ""]
        ELSE IF c.raised = "FileNotFoundError"
        THEN [w |-> ShowDialog(ShowMessage(w, "File Not Found"), "session"),
              raised |-> ""]
        ELSE [w |-> w, raised |-> c.raised]

\* present_audio(audio, pres_level, **kwargs)
present_audio(w, audio, pres_level, kwargs) ==
    LET c == _create_audio_object(w, audio, kwargs)
    IN  IF c.raised = "InvalidAudioType"
        THEN ShowMessage(c.w, "Invalid Audio Type")
        ELSE IF c.raised = "MissingSamplingRate"
        THEN ShowMessage(c.w, "Missing Sampling Rate")
        ELSE _play(c.w, pres_level)

\* stim_model.get_test_freqs()
get_test_freqs(sp) == string_to_list(sp.test_freqs)

\* Durations in milliseconds, phases in millionths of a radian.
Sec(s) == s * 1000

\* The vetted starting phases of _get_random_phis, in degrees.
degrees == <<0, 40, 80, 120, 150, -40, -80, -120, -150>>

\* What random.Random(217) draws: the successive values of _randbelow(9),
\* _randbelow(8), ... that sample() consumes.
Random217_randbelow == <<4, 3, 1, 2, 1, 0, 1, 0, 0>>

\* random.sample's pool selection: result[i] = pool[j], then the last
\* non-selected item moves into the vacancy.
RECURSIVE sample_pool(_, _, _, _)
sample_pool(pool, i, k, result) ==
    IF i = k THEN result
    ELSE LET n == Len(pool)
             j == Random217_randbelow[i + 1] + 1
         IN  sample_pool([pool EXCEPT ![j] = pool[n - i]], i + 1, k,
                         Append(result, pool[j]))

\* The draw that puts every item back: pool[j] is never overwritten.
sample_with_replacement(population, k) ==
    IF k < 0 \/ k > Len(population)
    THEN [raised |-> "ValueError", val |-> <<>>]
    ELSE [raised |-> "",
          val |-> [i \in 1..k |-> population[Random217_randbelow[i] + 1]]]

\* rng.sample(population, k)
sample(population, k) ==
    IF k < 0 \/ k > Len(population)
    THEN [raised |-> "ValueError", val |-> <<>>]
    ELSE [raised |-> "", val |-> sample_pool(population, 0, k, <<>>)]

\* np.radians on the vetted phases
radians_table ==
    [d \in {0, 40, 80, 120, 150} |->
        CASE d = 0 -> 0
          [] d = 40 -> 698132
          [] d = 80 -> 1396263
          [] d = 120 -> 2094395
          [] d = 150 -> 2617994]
radians(d) == IF d < 0 THEN 0 - radians_table[0 - d] ELSE radians_table[d]

\* stim_model._get_random_phis()
_get_random_phis(sp) ==
    LET random_degs == sample(degrees, sp.num_stim_chans)
    IN  [raised |-> random_degs.raised,
         val |-> [i \in 1..Len(random_degs.val) |->
                     radians(random_degs.val[i])]]

\* A time vector that includes its end point.
arange_len_inclusive(dur, fs) ==
    IF dur < 0 THEN 0 ELSE (dur * fs + 999) \div 1000 + 1

\* len(np.arange(0, dur, 1/fs)): ceil(dur * fs) samples, none for dur <= 0.
arange_len(dur, fs) ==
    IF dur <= 0 THEN 0 ELSE (dur * fs + 999) \div 1000

\* general.warble_tone: a 1-D signal, one sample per point of the time
\* vector; the model keeps its length.
warble_tone(dur, fs) == arange_len(dur, fs)

\* The ramp create_stimulus asks doGate for, in milliseconds.
RampDur == 40

\* general.doGate on a 1-D signal of len_sig samples: the sustain portion
\* is np.ones(len(sig) - 2*len(gate)), which raises ValueError for a
\* negative length.
doGate(len_sig, rampdur, fs) ==
    LET len_gate == (fs * rampdur) \div 1000
    IN  IF len_sig - 2 * len_gate < 0
        THEN [raised |-> "ValueError", len |-> 0]
        ELSE [raised |-> "", len |-> len_sig]

\* The peak of a warble tone gated and set to -40 dB RMS, in 1/10000 of
\* full scale.
StimPeak == 141

\* stim_model.create_stimulus(dur, fs, fc, mod_rate, mod_depth): one gated
\* warble tone per channel, a column each after the transposition.  With
\* no channel the loop is skipped and np.array([]).T, a 1-D array without
\* samples, is returned.
create_stimulus(sp, dur, fs, fc) ==
    LET stim_chans == sp.num_stim_chans
        phi_rad == _get_random_phis(sp)
        wt == doGate(warble_tone(dur, fs), RampDur, fs)
    IN  IF phi_rad.raised # ""
        THEN [raised |-> phi_rad.raised, sig |-> Signal(0, 1, <<>>)]
        ELSE IF stim_chans = 0
        THEN [raised |-> "", sig |-> Signal(0, 1, <<>>)]
        ELSE IF wt.raised # ""
        THEN [raised |-> wt.raised, sig |-> Signal(0, 1, <<>>)]
        ELSE [raised |-> "",
              sig |-> Signal(wt.len, 2,
                             [i \in 1..stim_chans |->
                                 Chan(-StimPeak, StimPeak, 0)])]

\* _quit(): destroy() takes the dialogs and the pending callbacks along.
_quit(w) ==
    [w EXCEPT !.app.alive = FALSE, !.app.dialogs = {},
              !.app.bind_pending = 0, !.app.keys_bound = FALSE]

\* _new_trial(); interval is what assign_stimulus_interval draws.  The
\* steps taken are written to app.log as they are taken.
_new_trial(w, interval) ==
    LET w1 == [w EXCEPT !.app.stim_interval = interval,
                        !.app.log = <<"level">>, !.app.selected = FALSE]
        lvl == calc_presentation_lvl(dB(w.st.current_level),
                                     Hz(w.app.current_freq),
                                     w.sp.num_stim_chans)
    IN  IF lvl.raised # ""
        THEN Raise([w1 EXCEPT !.app.log =
                       IF lvl.summations = 0 THEN @
                       ELSE <<"level", "reference">>],
                   lvl.raised)
        ELSE
        LET w2 == _calc_level(
                      [w1 EXCEPT !.app.log =
                          <<"level", "reference", "summation">>],
                      lvl.val)
        IN  IF w2.exc # "" THEN w2
            ELSE
            LET w3 == present_audio(
                          [w2 EXCEPT !.app.log =
                              <<"level", "reference", "summation",
                                "calibration", "waveform">>],
                          [type |-> "ndarray", exists |-> TRUE,
                           signal |-> w2.app.stim, fs |-> 0],
                          w2.sp.adjusted_level_dB,
                          [has_sampling_rate |-> TRUE, sampling_rate |-> FS])
            IN  IF w3.exc # "" THEN w3
                ELSE [w3 EXCEPT !.app.bind_pending = @ + 1,
                                !.app.presented = @ + 1,
                                !.app.log =
                                    IF Len(w3.sd.played) > Len(w.sd.played)
                                    THEN Append(@, "play") ELSE @]

\* start_new_run()
start_new_run(w, interval) ==
    LET first == w.app.first_run_flag
        fr == get_test_freqs(w.sp)
        w0 == IF first THEN [w EXCEPT !.app.start_enabled = FALSE] ELSE w
        w1 == IF first
              THEN [w0 EXCEPT !.app.freqs = fr.val,
                              !.app.NUM_FREQS = Len(fr.val),
                              !.app.first_run_flag = FALSE]
              ELSE w0
    IN  IF first /\ ~fr.ok THEN Raise(w0, "ValueError")
        ELSE IF w1.app.freqs = <<>>
        THEN _quit(ShowMessage(w1, "Task Complete"))
        ELSE
        LET w2 == ShowMessage(
                      [w1 EXCEPT !.app.current_freq = Head(w1.app.freqs),
                                 !.app.freqs = Tail(w1.app.freqs)],
                      "Ready")
            st == create_stimulus(w2.sp, Sec(w2.sp.duration), FS,
                                  w2.app.current_freq)
        IN  IF st.raised # "" THEN Raise(w2, st.raised)
            ELSE
            LET w3 == [w2 EXCEPT
                          !.app.stim = st.sig,
                          !.app.progress_steps =
                              IF @ < w2.app.NUM_FREQS THEN @ + 1 ELSE @]
                steps == string_to_list(w3.sp.step_sizes)
                s == NewStaircase(w3.sp)
            IN  IF ~steps.ok THEN Raise(w3, "ValueError")
                ELSE IF ~s.ok THEN Raise(w3, "ConfigurationError")
                ELSE _new_trial([w3 EXCEPT !.st = s], interval)

\* bind_keys() and unbind_keys()
bind_keys(w) == [w EXCEPT !.app.keys_bound = TRUE]
unbind_keys(w) ==
    IF ~w.app.alive THEN Raise(w, "TclError")
    ELSE [w EXCEPT !.app.keys_bound = FALSE]

\* _on_1() and _on_2()
_on_1(w) == [w EXCEPT !.app.response = 1, !.app.selected = TRUE]
_on_2(w) == [w EXCEPT !.app.response = 2, !.app.selected = TRUE]

\* A file opened for writing, not for appending.
save_record_truncating(file, sp, data) ==
    <<[name |-> <<sp.subject, sp.condition>>, header |-> TRUE, row |-> data]>>

\* A header written by every save, whether the file is new or not.
save_record_header_each_time(file, sp, data) ==
    Append(file, [name |-> <<sp.subject, sp.condition>>, header |-> TRUE,
                  row |-> data])

\* csvmodel.save_record(data): the row appended to the file named after
\* the subject and the condition, with a header when the file is new.
save_record(file, sp, data) ==
    LET name == <<sp.subject, sp.condition>>
        newfile == \A i \in 1..Len(file) : file[i].name # name
    IN  Append(file, [name |-> name, header |-> newfile, row |-> data])

\* _save_trial_data(); writable is whether the data file can be written.
_save_trial_data(w, writable) ==
    LET dp == w.st.datapoints[Len(w.st.datapoints)]
        data == [trial |-> w.app.trial + 1, subject |-> w.sp.subject,
                 condition |-> w.sp.condition, min_level |-> w.sp.min_level,
                 max_level |-> w.sp.max_level, duration |-> w.sp.duration,
                 step_sizes |-> w.sp.step_sizes,
                 num_reversals |-> w.sp.num_reversals,
                 rapid_descend |-> w.sp.rapid_descend,
                 slm_reading |-> w.sp.slm_reading,
                 cal_level_dB |-> w.sp.cal_level_dB,
                 slm_offset |-> w.sp.slm_offset,
                 adjusted_level_dB |-> w.sp.adjusted_level_dB,
                 desired_level_dB |-> w.sp.desired_level_dB,
                 test_freq |-> w.app.current_freq,
                 response |-> dp.response, reversal |-> dp.reversal]
    IN  IF ~writable
        THEN _quit(ShowMessage(w, "Access Denied"))
        ELSE [w EXCEPT !.csv = save_record(w.csv, w.sp, data)]

\* Key 1 taken for "yes", whatever the interval of the stimulus.
response_value_yes_no(response, stim_interval) ==
    IF response = 1 THEN 1 ELSE -1

\* The value _on_submit hands to add_response.
response_value(response, stim_interval) ==
    IF response = 1 /\ stim_interval = 1 THEN 1
    ELSE IF response = 2 /\ stim_interval = 2 THEN 1
    ELSE -1

\* _on_submit()
_on_submit(w, interval, writable) ==
    IF w.app.response = 0 \/ w.app.stim_interval = 0 \/ ~w.st.ok
    THEN Raise(w, "AttributeError")
    ELSE
    LET outcome == response_value(w.app.response, w.app.stim_interval)
        w1 == [w EXCEPT !.st = add_response(w.st, outcome),
                        !.app.presented = 0]
        w2 == _save_trial_data(w1, writable)
        w3 == [w2 EXCEPT !.app.trial = @ + 1]
        w4 == unbind_keys(w3)
    IN  IF w4.exc # "" THEN w4
        ELSE IF ~w4.st.status THEN start_new_run(w4, interval)
        ELSE _new_trial(w4, interval)

---------------------------------------------------------------------------
(* The staircase on its own: one run under every response sequence.        *)

MaxTrials == 9

StairParsSet ==
    {[DefaultSessionPars EXCEPT !.starting_level = c.start,
                                !.min_level = c.lv[1], !.max_level = c.lv[2],
                                !.step_sizes = c.steps,
                                !.num_reversals = c.revs,
                                !.rapid_descend_bool = c.rapid] :
        c \in [start : {30, 95}, lv : {<<-50, 90>>, <<22, 36>>},
               steps : {Steps_10_5_2, Steps_4}, revs : {2, 4},
               rapid : BOOLEAN]}

StairInit ==
    /\ sessionpars \in StairParsSet
    /\ staircase = NoStaircase
    /\ IdleInit

stairIdle ==
    <<sessionpars, sessionpars_model, calmodel, a, sd, msgs, exc, call, app,
      csvfile>>

StairConstruct ==
    /\ ~staircase.ok
    /\ staircase' = NewStaircase(sessionpars)
    /\ UNCHANGED stairIdle

StairRespond ==
    /\ staircase.ok
    /\ staircase.status
    /\ staircase.trial_count < MaxTrials
    /\ \E outcome \in {1, -1} : staircase' = add_response(staircase, outcome)
    /\ UNCHANGED stairIdle

StairNext == StairConstruct \/ StairRespond

SpecStaircase == StairInit /\ [][StairNext]_vars

---------------------------------------------------------------------------
(* The calibration unit on its own: one SLM reading, then conversions.     *)

LevelSet == {dB(-30), dB(-25), dB(0), dB(65), dB(70), dB(75)}

CalInit ==
    /\ sessionpars \in
         {[DefaultSessionPars EXCEPT !.slm_reading = c[1], !.cal_level_dB = c[2],
                                     !.slm_offset = 0,
                                     !.adjusted_level_dB = 0,
                                     !.desired_level_dB = 0] :
             c \in LevelSet \X {dB(-40), dB(-30), dB(-25)}}
    /\ staircase = NoStaircase
    /\ sessionpars_model = DefaultSessionPars
    /\ calmodel = [calibrated |-> FALSE]
    /\ a = NoAudio
    /\ sd = NoSd
    /\ msgs = <<>>
    /\ exc = ""
    /\ call = NoCall
    /\ app = NewApplication
    /\ csvfile = <<>>

calIdle == <<staircase, a, sd, msgs, app, csvfile>>

\* _calc_offset(): the <<CalibrationSubmit>> handler.
CalcOffset ==
    /\ ~calmodel.calibrated
    /\ LET r == calc_offset(calmodel, sessionpars)
       IN  /\ calmodel' = r.cm
           /\ sessionpars' = r.sp
           /\ sessionpars_model' = save_sessionpars(r.sp)
    /\ exc' = ""
    /\ call' = [NoCall EXCEPT !.op = "_calc_offset", !.done = TRUE]
    /\ UNCHANGED calIdle

\* _calc_level(desired_spl)
CalcLevel ==
    /\ \E desired_spl \in LevelSet :
        LET r == calc_level(calmodel, sessionpars, desired_spl)
        IN  /\ sessionpars' = r.sp
            /\ exc' = r.raised
            /\ sessionpars_model' =
                   IF r.raised = "" THEN save_sessionpars(r.sp)
                   ELSE sessionpars_model
            /\ call' = [NoCall EXCEPT !.op = "_calc_level",
                                      !.args = <<desired_spl>>,
                                      !.done = TRUE, !.raised = r.raised]
    /\ UNCHANGED <<calmodel, calIdle>>

CalNext == CalcOffset \/ CalcLevel

SpecCal == CalInit /\ [][CalNext]_vars

---------------------------------------------------------------------------
(* calc_presentation_lvl on its own, for every argument of a small set.    *)

FreqSet == RETSPL_keys \cup {Hz(1100), Hz(31), Hz(0), Hz(999), 5}

LookupInit ==
    /\ sessionpars \in
         {[DefaultSessionPars EXCEPT !.num_stim_chans = n] : n \in 1..3}
    /\ staircase = NoStaircase
    /\ IdleInit

lookupIdle ==
    <<sessionpars, staircase, sessionpars_model, calmodel, a, sd, msgs, app,
      csvfile>>

CalcPresentationLvl ==
    /\ \E stair_lvl \in {dB(20), dB(30)}, freq \in FreqSet :
        LET r == calc_presentation_lvl(stair_lvl, freq,
                                       sessionpars.num_stim_chans)
        IN  /\ call' = [op |-> "calc_presentation_lvl",
                        args |-> <<stair_lvl, freq>>, done |-> TRUE,
                        raised |-> r.raised, val |-> r.val,
                        summations |-> r.summations]
            /\ exc' = r.raised
    /\ UNCHANGED lookupIdle

LookupNext == CalcPresentationLvl

SpecLookup == LookupInit /\ [][LookupNext]_vars

---------------------------------------------------------------------------
(* calc_RMS_based_on_sources on its own.                                   *)

SummationLevels == {dB(l) : l \in 20..70}
SummationSources == 0..5

SummationInit ==
    /\ sessionpars = DefaultSessionPars
    /\ staircase = NoStaircase
    /\ IdleInit

CalcRMSBasedOnSources ==
    /\ \E desired_SPL \in SummationLevels, num_sources \in SummationSources :
        LET r == calc_RMS_based_on_sources(desired_SPL, num_sources)
        IN  /\ call' = [op |-> "calc_RMS_based_on_sources",
                        args |-> <<desired_SPL, num_sources>>, done |-> TRUE,
                        raised |-> r.raised, val |-> r.val, summations |-> 1]
            /\ exc' = r.raised
    /\ UNCHANGED lookupIdle

SummationNext == CalcRMSBasedOnSources

SpecSummation == SummationInit /\ [][SummationNext]_vars

---------------------------------------------------------------------------
(* The stimulus synthesis on its own.                                      *)

StimChansSet == 0 - 1 .. 10
StimDurations == {0 - 1000, 0, 10, 79, 80, 500, 1000, 2000}

StimInit ==
    /\ sessionpars \in {[DefaultSessionPars EXCEPT !.num_stim_chans = n] :
                            n \in StimChansSet}
    /\ staircase = NoStaircase
    /\ sessionpars_model = DefaultSessionPars
    /\ calmodel = [calibrated |-> FALSE]
    /\ a = NoAudio
    /\ sd = NoSd
    /\ msgs = <<>>
    /\ exc = ""
    /\ call = [NoCall EXCEPT !.val = <<>>]
    /\ app = NewApplication
    /\ csvfile = <<>>

stimIdle ==
    <<sessionpars, staircase, sessionpars_model, calmodel, a, sd, msgs,
      csvfile>>

GetRandomPhis ==
    /\ LET r == _get_random_phis(sessionpars)
       IN  /\ call' = [op |-> "_get_random_phis", args |-> <<>>,
                       done |-> TRUE, raised |-> r.raised, val |-> r.val,
                       summations |-> 0]
           /\ exc' = r.raised
    /\ UNCHANGED <<stimIdle, app>>

\* self.stim = self.stim_model.create_stimulus(dur, fs, fc, 5, 5)
CreateStimulus ==
    /\ \E dur \in StimDurations :
        LET r == create_stimulus(sessionpars, dur, FS, 1000)
        IN  /\ call' = [op |-> "create_stimulus", args |-> <<dur, FS>>,
                        done |-> TRUE, raised |-> r.raised, val |-> <<>>,
                        summations |-> 0]
            /\ exc' = r.raised
            /\ app' = IF r.raised = "" THEN [app EXCEPT !.stim = r.sig]
                      ELSE app
    /\ UNCHANGED stimIdle

StimNext == GetRandomPhis \/ CreateStimulus

SpecStimulus == StimInit /\ [][StimNext]_vars

---------------------------------------------------------------------------
(* The data file on its own: records saved in any order for two subjects.  *)

MaxRecords == 4

CsvInit ==
    /\ sessionpars = DefaultSessionPars
    /\ staircase = NoStaircase
    /\ IdleInit

\* The subject entry of the session dialog, typed between saves.
SetSubject ==
    /\ \E subject \in {"P1234", "P5678"} \ {sessionpars.subject} :
          sessionpars' = [sessionpars EXCEPT !.subject = subject]
    /\ UNCHANGED <<csvfile, staircase, sessionpars_model, calmodel, a, sd,
                   msgs, exc, call, app>>

\* csvmodel.save_record(data)
SaveRecord ==
    /\ Len(csvfile) < MaxRecords
    /\ \E response \in {-1, 1} :
          csvfile' = save_record(csvfile, sessionpars,
                                 [trial |-> Len(csvfile) + 1,
                                  response |-> response])
    /\ UNCHANGED <<sessionpars, staircase, sessionpars_model, calmodel, a,
                   sd, msgs, exc, call, app>>

CsvNext == SetSubject \/ SaveRecord

SpecCsv == CsvInit /\ [][CsvNext]_vars

---------------------------------------------------------------------------
(* ScoringModel (models/scoringmodel.py): thresholds from the rows of the  *)
(* data files.  A threshold is the mean as [sum, n]: sum / n, and NaN for  *)
(* n = 0.                                                                   *)

MaxRows == 3

\* Series.unique(): the values in order of first appearance.
RECURSIVE unique(_)
unique(col) ==
    IF col = <<>> THEN <<>>
    ELSE LET front == unique(SubSeq(col, 1, Len(col) - 1))
             last == col[Len(col)]
         IN  IF \E i \in 1..Len(front) : front[i] = last THEN front
             ELSE Append(front, last)

\* Series.sum()
RECURSIVE series_sum(_)
series_sum(col) ==
    IF col = <<>> THEN 0 ELSE Head(col) + series_sum(Tail(col))

\* score(num_reversals): one (subject, freq, threshold) per subject and
\* frequency, in the order of the two loops.
score(data, num_reversals) ==
    IF num_reversals <= 0 THEN [raised |-> "ValueError", val |-> <<>>]
    ELSE
    LET column(name) == [i \in 1..Len(data) |-> data[i][name]]
        subs == unique(column("subject"))
        freqs == unique(column("test_freq"))
        threshold(sub, freq) ==
            LET freq_mask(r) == r.test_freq = freq
                reversal_mask(r) == r.reversal
                temp == SelectSeq(SelectSeq(data, freq_mask), reversal_mask)
                levels == [i \in 1..Len(temp) |-> temp[i].desired_level_dB]
                tail == SubSeq(levels,
                               Max2(1, Len(levels) - num_reversals + 1),
                               Len(levels))
            IN  [subject |-> sub, freq |-> freq,
                 sum |-> series_sum(tail), n |-> Len(tail)]
    IN  [raised |-> "",
         val |-> [k \in 1..(Len(subs) * Len(freqs)) |->
                     threshold(subs[((k - 1) \div Len(freqs)) + 1],
                               freqs[((k - 1) % Len(freqs)) + 1])]]

\* The rows _organize_data reads: two subjects, two frequencies, two
\* levels, reversal trials and others.
ScoringRows ==
    [subject : {"P1234", "P5678"}, test_freq : {500, 1000},
     reversal : BOOLEAN, desired_level_dB : {20, 30}]

ScoringInit ==
    /\ sessionpars = DefaultSessionPars
    /\ staircase = NoStaircase
    /\ sessionpars_model = DefaultSessionPars
    /\ calmodel = [calibrated |-> FALSE]
    /\ a = NoAudio
    /\ sd = NoSd
    /\ msgs = <<>>
    /\ exc = ""
    /\ call = [NoCall EXCEPT !.val = <<>>]
    /\ app = NewApplication
    /\ \E n \in 1..MaxRows : csvfile \in [1..n -> ScoringRows]

\* score(num_reversals)
Score ==
    /\ \E num_reversals \in 0..2 :
          LET r == score(csvfile, num_reversals)
          IN  call' = [op |-> "score", args |-> <<num_reversals>>,
                       done |-> TRUE, raised |-> r.raised, val |-> r.val,
                       summations |-> 0]
    /\ UNCHANGED <<sessionpars, staircase, sessionpars_model, calmodel, a,
                   sd, msgs, exc, app, csvfile>>

ScoringNext == Score

SpecScoring == ScoringInit /\ [][ScoringNext]_vars

---------------------------------------------------------------------------
(* Audio presentation on its own: present_audio for every signal, level,   *)
(* device and routing of a small set.                                      *)

MaxPresentations == 2

Handle == [World EXCEPT !.exc = ""]

AudioParsSet ==
    {[DefaultSessionPars EXCEPT !.audio_device = c[1],
                                !.channel_routing = c[2]] :
        c \in (1..3) \X {<<Num(1)>>, <<Num(1), Space, Num(2)>>,
                         <<Num(1), Comma, Num(2)>>, <<>>}}

\* What a caller can pass as audio: arrays of one and two columns, one
\* whose largest excursion is negative, a one-dimensional array, a path
\* to a wav file, a path to a file that is not there, and an object that
\* is neither.
AudioSet ==
    {[type |-> "ndarray", exists |-> TRUE, fs |-> 0,
      signal |-> Signal(FS, 2, <<Chan(-5000, 5000, 0)>>)],
     [type |-> "ndarray", exists |-> TRUE, fs |-> 0,
      signal |-> Signal(FS, 2, <<Chan(-9000, 3000, -100)>>)],
     [type |-> "ndarray", exists |-> TRUE, fs |-> 0,
      signal |-> Signal(FS, 2, <<Chan(-5000, 5000, 0),
                                 Chan(-2000, 8000, 50)>>)],
     [type |-> "ndarray", exists |-> TRUE, fs |-> 0,
      signal |-> Signal(FS, 1, <<Chan(-10000, 10000, 0)>>)],
     [type |-> "Path", exists |-> TRUE, fs |-> FS,
      signal |-> Signal(FS, 2, <<Chan(-3000, 3000, 0)>>)],
     [type |-> "Path", exists |-> FALSE, fs |-> 0,
      signal |-> Signal(0, 1, <<>>)],
     [type |-> "str", exists |-> FALSE, fs |-> 0,
      signal |-> Signal(0, 1, <<>>)]}

PresLevelSet == {dB(-20), dB(0), dB(1), dB(6)}

AudioInit ==
    /\ sessionpars \in AudioParsSet
    /\ staircase = NoStaircase
    /\ IdleInit

\* present_audio(audio, pres_level, sampling_rate=FS)
PresentAudio ==
    /\ Len(msgs) + Len(sd.played) < MaxPresentations
    /\ \E audio \in AudioSet, pres_level \in PresLevelSet,
          has_fs \in BOOLEAN :
          Commit(present_audio(Handle, audio, pres_level,
                               [has_sampling_rate |-> has_fs,
                                sampling_rate |-> FS]))
    /\ UNCHANGED call

AudioNext == PresentAudio

SpecAudio == AudioInit /\ [][AudioNext]_vars

---------------------------------------------------------------------------
(* The application: the events of the main window, the session dialog and  *)
(* the calibration dialog, in any order.                                   *)

MaxSessionTrials == 3
MaxMessages == 3
MaxEntries == 1

Steps_0 == <<Num(0)>>
Steps_4_2_NoSpace == <<Num(4), Comma, Num(2)>>
Steps_4_2 == <<Num(4), Comma, Space, Num(2)>>

\* The parameters of a short task: two frequencies, one step size, one
\* reversal.
TaskPars ==
    [DefaultSessionPars EXCEPT !.test_freqs = Freqs_500_1000,
                               !.step_sizes = Steps_4, !.num_reversals = 1,
                               !.rapid_descend = "No",
                               !.rapid_descend_bool = FALSE]

\* What the session dialog's entries can be made to hold.
StepSizesEntries == {Steps_4, Steps_0, Steps_4_2_NoSpace}
NumReversalsEntries == {0, 1}
MaxLevelEntries == {-50, 90}
SlmReadings == {dB(75)}

Init ==
    /\ sessionpars = TaskPars
    /\ staircase = NoStaircase
    /\ sessionpars_model = TaskPars
    /\ calmodel = [calibrated |-> FALSE]
    /\ a = NoAudio
    /\ sd = NoSd
    /\ msgs = <<>>
    /\ exc = ""
    /\ call = NoCall
    /\ app = NewApplication
    /\ csvfile = <<>>

MainWindowActive == app.alive /\ app.dialogs = {}

\* <<FileStart>>
FileStart ==
    /\ MainWindowActive
    /\ app.start_enabled
    /\ \E interval \in INTERVALS : Commit(start_new_run(Handle, interval))
    /\ UNCHANGED call

\* <<FileSession>>: the dialog is opened as long as there is an entry to
\* type.
ShowSessionDialog ==
    /\ MainWindowActive
    /\ app.entries_typed < MaxEntries
    /\ Commit(ShowDialog(Handle, "session"))
    /\ UNCHANGED call

\* Typing into an entry of the session dialog: the entries are bound to
\* the tk variables of sessionpars.  entries_typed counts the entries
\* typed so far, for the bound MaxEntries.
SessionEntry ==
    /\ app.alive
    /\ "session" \in app.dialogs
    /\ app.entries_typed < MaxEntries
    /\ app' = [app EXCEPT !.entries_typed = @ + 1]
    /\ \/ \E v \in StepSizesEntries \ {sessionpars.step_sizes} :
              sessionpars' = [sessionpars EXCEPT !.step_sizes = v]
       \/ \E v \in NumReversalsEntries \ {sessionpars.num_reversals} :
              sessionpars' = [sessionpars EXCEPT !.num_reversals = v]
       \/ \E v \in MaxLevelEntries \ {sessionpars.max_level} :
              sessionpars' = [sessionpars EXCEPT !.max_level = v]
    /\ UNCHANGED <<staircase, sessionpars_model, calmodel, a, sd, msgs, exc,
                   call, csvfile>>

\* SessionDialog._check_reversals() and _check_levels()
_check_reversals(sp) == sp.num_reversals >= Len(split_blanks(sp.step_sizes))
_check_levels(sp) == sp.max_level > sp.min_level

\* SessionDialog._on_submit(), and the <<SessionSubmit>> handler
SessionSubmit ==
    /\ app.alive
    /\ "session" \in app.dialogs
    /\ IF ~_check_reversals(sessionpars)
       THEN /\ Len(msgs) < MaxMessages
            /\ Commit(ShowMessage(Handle, "Not Enough Reversals"))
       ELSE IF ~_check_levels(sessionpars)
       THEN /\ Len(msgs) < MaxMessages
            /\ Commit(ShowMessage(Handle, "Invalid Levels"))
       ELSE Commit([_save_sessionpars(Handle) EXCEPT
                       !.app.dialogs = @ \ {"session"}])
    /\ UNCHANGED call

\* A dialog closed from its title bar.
CloseDialog ==
    /\ app.alive
    /\ \E d \in app.dialogs : app' = [app EXCEPT !.dialogs = @ \ {d}]
    /\ UNCHANGED <<sessionpars, staircase, sessionpars_model, calmodel, a, sd,
                   msgs, exc, call, csvfile>>

\* <<CalibrationSubmit>>, with the reading typed into the dialog
CalibrationSubmit ==
    /\ MainWindowActive
    /\ \E reading \in SlmReadings :
          Commit(_calc_offset([Handle EXCEPT !.sp.slm_reading = reading]))
    /\ UNCHANGED call

\* The callback of after(10, ...) in _new_trial
BindKeys ==
    /\ app.alive
    /\ app.bind_pending > 0
    /\ Commit(bind_keys([Handle EXCEPT !.app.bind_pending = @ - 1]))
    /\ UNCHANGED call

\* The keys 1 and 2: <<MainOne>> and <<MainTwo>>
Key1 ==
    /\ MainWindowActive
    /\ app.keys_bound
    /\ Commit(_on_1(Handle))
    /\ UNCHANGED call

Key2 ==
    /\ MainWindowActive
    /\ app.keys_bound
    /\ Commit(_on_2(Handle))
    /\ UNCHANGED call

\* <<MainSubmit>>
MainSubmit ==
    /\ MainWindowActive
    /\ app.trial < MaxSessionTrials
    /\ \E interval \in INTERVALS, writable \in BOOLEAN :
          Commit(_on_submit(Handle, interval, writable))
    /\ UNCHANGED call

Next ==
    \/ FileStart
    \/ ShowSessionDialog
    \/ SessionEntry
    \/ SessionSubmit
    \/ CloseDialog
    \/ CalibrationSubmit
    \/ BindKeys
    \/ Key1
    \/ Key2
    \/ MainSubmit

Spec == Init /\ [][Next]_vars

---------------------------------------------------------------------------
(* The application with two step sizes typed into the session dialog while *)
(* one reversal is asked for.                                               *)

\* The step sizes entry of the session dialog, "4, 2" typed into it.
StepSizesEntry ==
    /\ app.alive
    /\ "session" \in app.dialogs
    /\ app.entries_typed < MaxEntries
    /\ app' = [app EXCEPT !.entries_typed = @ + 1]
    /\ sessionpars' = [sessionpars EXCEPT !.step_sizes = Steps_4_2]
    /\ UNCHANGED <<staircase, sessionpars_model, calmodel, a, sd, msgs, exc,
                   call, csvfile>>

SessionNext ==
    \/ FileStart
    \/ ShowSessionDialog
    \/ StepSizesEntry
    \/ SessionSubmit
    \/ CloseDialog
    \/ CalibrationSubmit
    \/ BindKeys
    \/ Key1
    \/ Key2
    \/ MainSubmit

SpecSession == Init /\ [][SessionNext]_vars

---------------------------------------------------------------------------
(* The trials of a task on its own: the events of the main window, with    *)
(* the audio settings and the calibration level the session file can       *)
(* hold.                                                                    *)

\* Session parameters as loaded at start-up: an audio device that exists
\* or not, a routing of one or two channels, a calibration level that
\* leaves headroom or none.
TrialParsSet ==
    {[TaskPars EXCEPT !.audio_device = c[1], !.channel_routing = c[2],
                      !.cal_level_dB = c[3]] :
        c \in {2, 3} \X {<<Num(1)>>, <<Num(1), Space, Num(2)>>}
                \X {dB(-30), dB(100)}}

TrialInit ==
    /\ sessionpars \in TrialParsSet
    /\ sessionpars_model = sessionpars
    /\ staircase = NoStaircase
    /\ calmodel = [calibrated |-> FALSE]
    /\ a = NoAudio
    /\ sd = NoSd
    /\ msgs = <<>>
    /\ exc = ""
    /\ call = NoCall
    /\ app = NewApplication
    /\ csvfile = <<>>

TrialNext ==
    \/ FileStart
    \/ CalibrationSubmit
    \/ CloseDialog
    \/ BindKeys
    \/ Key1
    \/ Key2
    \/ MainSubmit

SpecTrial == TrialInit /\ [][TrialNext]_vars

---------------------------------------------------------------------------
(* Properties of the staircase, checked under SpecStaircase.               *)

\* One add_response call: the step from staircase to staircase'.
Responded ==
    /\ staircase.ok
    /\ staircase'.ok
    /\ staircase'.trial_count = staircase.trial_count + 1

\* The outcome passed to the last add_response call.
LastResponse(s) == s.datapoints[Len(s.datapoints)].response

IsPrefix(x, y) == Len(x) <= Len(y) /\ SubSeq(y, 1, Len(x)) = x

AllResponsesEqual(s) ==
    \A i, j \in 1..Len(s.datapoints) :
        s.datapoints[i].response = s.datapoints[j].response

\* C1: after every add_response call, for every response sequence, the
\* level lies within [min_level, max_level], the steps taken during rapid
\* descend included.
C1_LevelWithinBounds ==
    (staircase.ok /\ staircase.trial_count > 0) =>
        /\ staircase.min_level <= staircase.current_level
        /\ staircase.current_level <= staircase.max_level

\* A rapid-descend step that would have left the range was clamped to the
\* minimum.
C1_Witness ==
    /\ staircase.ok
    /\ staircase.rapid_descend_active
    /\ staircase.trial_count > 0
    /\ staircase.current_level = staircase.min_level
    /\ LET d == staircase.datapoints[Len(staircase.datapoints)]
       IN  d.level - staircase.step_sizes[1] < staircase.min_level

\* C2: status is running exactly while fewer than target_reversals scored
\* reversals are recorded; it turns complete on the call that records the
\* target_reversals-th reversal, and stays complete for the rest of the run.
C2_StatusTracksReversals ==
    /\ [](staircase.ok =>
            (staircase.status <=>
                Len(staircase.reversals) < staircase.target_reversals))
    /\ [][(Responded /\ staircase.status /\ ~staircase'.status) =>
            /\ Len(staircase.reversals) = staircase.target_reversals - 1
            /\ Len(staircase'.reversals) = staircase.target_reversals
            /\ staircase'.datapoints[Len(staircase'.datapoints)].reversal]_vars
    /\ [][(staircase.ok /\ ~staircase.status) =>
            (staircase'.ok /\ ~staircase'.status)]_vars

\* A run that has completed after rapid descend ended.
C2_Witness ==
    /\ staircase.ok
    /\ ~staircase.status
    /\ sessionpars.rapid_descend_bool
    /\ Len(staircase.reversals) = staircase.target_reversals
    /\ staircase.target_reversals = 4

\* C3: with rapid descend enabled the staircase steps on every response
\* (1-up/1-down) until the first direction change; that change switches
\* rapid descend off and is not appended to reversals; afterwards a single
\* correct response does not step and only the second consecutive one
\* does.  From 30 with step sizes 10, 5, 2 the first correct response
\* gives 20.
C3_RapidDescend ==
    /\ []((staircase.ok /\ sessionpars.rapid_descend_bool) =>
            /\ AllResponsesEqual(staircase) => staircase.rapid_descend_active
            /\ staircase.rapid_descend_active => staircase.reversals = <<>>)
    /\ [][(Responded /\ staircase.rapid_descend_active) =>
            LET r == LastResponse(staircase')
                stepped == IF r = 1
                           THEN staircase.current_level - active_step_size(staircase)
                           ELSE staircase.current_level + active_step_size(staircase)
                changed == /\ staircase.direction # "NONE"
                           /\ staircase.direction # staircase'.direction
            IN  /\ staircase'.current_level =
                       Clamp(stepped, staircase.min_level, staircase.max_level)
                /\ staircase'.direction = IF r = 1 THEN "DOWN" ELSE "UP"
                /\ staircase'.rapid_descend_active = ~changed
                /\ staircase'.reversals = <<>>
                /\ staircase'.step_index = 0]_vars
    /\ [][(Responded /\ ~staircase.rapid_descend_active
            /\ sessionpars.rapid_descend_bool /\ LastResponse(staircase') = 1) =>
            IF staircase.consecutive_correct = 1
            THEN /\ staircase'.direction = "DOWN"
                 /\ staircase'.current_level =
                        Clamp(staircase.current_level - active_step_size(staircase),
                              staircase.min_level, staircase.max_level)
            ELSE /\ staircase.consecutive_correct = 0
                 /\ staircase'.direction = staircase.direction
                 /\ staircase'.current_level = staircase.current_level]_vars
    /\ [][(Responded /\ sessionpars.rapid_descend_bool
            /\ staircase.trial_count = 0
            /\ staircase.current_level = 30
            /\ staircase.step_sizes = <<10, 5, 2>>
            /\ staircase.min_level <= 20
            /\ LastResponse(staircase') = 1) =>
            staircase'.current_level = 20]_vars

\* The responses +1, -1, +1, +1 from 30: down to 20, up to 30 (rapid
\* descend ends, nothing recorded), no step, then down to 20 with the first
\* scored reversal at 30.
C3_Witness ==
    /\ staircase.ok
    /\ sessionpars.rapid_descend_bool
    /\ ~staircase.rapid_descend_active
    /\ Len(staircase.datapoints) = 4
    /\ [i \in 1..4 |-> staircase.datapoints[i].response] = <<1, -1, 1, 1>>
    /\ [i \in 1..4 |-> staircase.datapoints[i].level] = <<30, 20, 30, 30>>
    /\ staircase.current_level = 20
    /\ staircase.reversals = <<30>>

\* C4: reversals is append-only; once rapid descend is inactive every
\* direction change appends the level before the change and moves
\* step_index one further, up to the last configured step size, which is
\* then used for every further step; without a direction change neither
\* reversals nor step_index changes.
C4_ReversalsAppendOnly ==
    /\ [](staircase.ok =>
            /\ staircase.step_index >= 0
            /\ staircase.step_index <= Len(staircase.step_sizes) - 1
            /\ staircase.step_index =
                   Min2(Len(staircase.reversals), Len(staircase.step_sizes) - 1))
    /\ [][(staircase.ok /\ staircase'.ok) =>
            IsPrefix(staircase.reversals, staircase'.reversals)]_vars
    /\ [][(Responded /\ ~staircase.rapid_descend_active) =>
            IF staircase.direction # "NONE"
               /\ staircase'.direction # staircase.direction
            THEN /\ staircase'.reversals =
                        Append(staircase.reversals, staircase.current_level)
                 /\ staircase'.step_index =
                        IF staircase.step_index + 1 < Len(staircase.step_sizes)
                        THEN staircase.step_index + 1
                        ELSE staircase.step_index
            ELSE /\ staircase'.reversals = staircase.reversals
                 /\ staircase'.step_index = staircase.step_index]_vars
    /\ [][(Responded /\ staircase'.current_level # staircase.current_level
            /\ staircase.min_level <= staircase.current_level
            /\ staircase.current_level <= staircase.max_level) =>
            \/ staircase'.current_level \in
                 {staircase.current_level + staircase.step_sizes[staircase.step_index + 1],
                  staircase.current_level - staircase.step_sizes[staircase.step_index + 1]}
            \/ staircase'.current_level \in
                 {staircase.min_level, staircase.max_level}]_vars

\* Four reversals with three step sizes: the index stays at the last size,
\* and the last step was taken with it.
C4_Witness ==
    /\ staircase.ok
    /\ Len(staircase.step_sizes) = 3
    /\ Len(staircase.reversals) = 4
    /\ staircase.step_index = 2
    /\ staircase.reversals[4] - staircase.current_level \in {2, -2}

\* C5: outside rapid descend, under the 1-up/2-down rule the controller
\* configures, an incorrect response raises the level by the active step
\* size and resets consecutive_incorrect; a correct response lowers it by
\* the active step size only as the second consecutive correct one, and
\* then resets consecutive_correct; any other response leaves the level as
\* it is.  The level is clamped afterwards.
C5_OneUpTwoDown ==
    /\ []((staircase.ok /\ ~staircase.rapid_descend_active) =>
            /\ staircase.consecutive_correct \in {0, 1}
            /\ staircase.consecutive_incorrect = 0)
    /\ [][(Responded /\ ~staircase.rapid_descend_active) =>
            LET r == LastResponse(staircase')
                step == active_step_size(staircase)
                lo == staircase.min_level
                hi == staircase.max_level
            IN  IF r = -1
                THEN /\ staircase'.current_level =
                            Clamp(staircase.current_level + step, lo, hi)
                     /\ staircase'.consecutive_incorrect = 0
                     /\ staircase'.consecutive_correct = 0
                ELSE IF staircase.consecutive_correct = 1
                THEN /\ staircase'.current_level =
                            Clamp(staircase.current_level - step, lo, hi)
                     /\ staircase'.consecutive_correct = 0
                ELSE /\ staircase'.current_level =
                            Clamp(staircase.current_level, lo, hi)
                     /\ staircase'.consecutive_correct = 1]_vars

\* Without rapid descend: one correct response left the level at 30, the
\* second lowered it to 20, an incorrect one raised it by 10 again (the
\* reversal it scores moves on to the next step size afterwards).
C5_Witness ==
    /\ staircase.ok
    /\ ~sessionpars.rapid_descend_bool
    /\ Len(staircase.datapoints) = 3
    /\ [i \in 1..3 |-> staircase.datapoints[i].response] = <<1, 1, -1>>
    /\ [i \in 1..3 |-> staircase.datapoints[i].level] = <<30, 30, 20>>
    /\ staircase.current_level = 30
    /\ staircase.reversals = <<20>>
    /\ staircase.step_index = 1
    /\ staircase.consecutive_incorrect = 0

---------------------------------------------------------------------------
(* Properties of the calibration unit, checked under SpecCal.              *)

\* C9: the stored offset is slm_reading - playback level; a conversion
\* returns desired_spl - offset, so converting the SLM reading itself gives
\* back the playback level of the calibration.  A reading of 70 at a
\* playback level of -30 gives the offset 100, and 75 converts to -25.
C9_CalibrationRoundTrip ==
    /\ calmodel.calibrated =>
         /\ sessionpars.slm_offset + sessionpars.cal_level_dB
                = sessionpars.slm_reading
         /\ (sessionpars.slm_reading = dB(70)
                /\ sessionpars.cal_level_dB = dB(-30)) =>
                    sessionpars.slm_offset = dB(100)
    /\ (call.op = "_calc_level" /\ call.raised = "") =>
         /\ sessionpars.desired_level_dB = call.args[1]
         /\ sessionpars.adjusted_level_dB + sessionpars.slm_offset
                = call.args[1]
         /\ call.args[1] = sessionpars.slm_reading =>
                sessionpars.adjusted_level_dB = sessionpars.cal_level_dB
         /\ (sessionpars.slm_offset = dB(100) /\ call.args[1] = dB(75)) =>
                sessionpars.adjusted_level_dB = dB(-25)

\* Calibrated with 70 at -30, then 75 converted to -25.
C9_Witness ==
    /\ calmodel.calibrated
    /\ sessionpars.slm_reading = dB(70)
    /\ sessionpars.cal_level_dB = dB(-30)
    /\ sessionpars.slm_offset = dB(100)
    /\ call.op = "_calc_level"
    /\ call.args = <<dB(75)>>
    /\ sessionpars.adjusted_level_dB = dB(-25)

---------------------------------------------------------------------------
(* Properties of the RETSPL lookup, checked under SpecLookup.              *)

\* C10: the table has 34 keys; for a frequency that is none of them the
\* lookup raises KeyError and no summation is computed; for a key the
\* table value is used as it stands (0.8 dB at 1000 Hz).
C10_LookupFailsOffTable ==
    /\ Cardinality(RETSPL_keys) = 34
    /\ Len(RETSPL_table) = 34
    /\ call.done =>
         LET stair_lvl == call.args[1]
             freq == call.args[2]
             n == sessionpars.num_stim_chans
         IN  /\ freq \notin RETSPL_keys =>
                    /\ call.raised = "KeyError"
                    /\ call.summations = 0
             /\ freq \in RETSPL_keys =>
                    /\ call.raised = ""
                    /\ call.summations = 1
                    /\ \E i \in 1..Len(RETSPL_table) :
                          /\ RETSPL_table[i][1] = freq
                          /\ call.val + TenLog10[n] =
                                 stair_lvl + TenthdB(RETSPL_table[i][2])
             /\ (freq = Hz(1000) /\ n = 1) => call.val = stair_lvl + TenthdB(8)
             /\ freq = Hz(1100) => call.raised = "KeyError"

\* The lookup for 1100 Hz has raised KeyError.
C10_Witness ==
    /\ call.done
    /\ call.args[2] = Hz(1100)
    /\ call.raised = "KeyError"
    /\ call.summations = 0

---------------------------------------------------------------------------
(* Properties of a run's start, checked under Spec.                        *)

\* A malformed staircase configuration, as the session parameters hold it.
C6_Malformed(sp) ==
    LET steps == string_to_list(sp.step_sizes)
    IN  \/ steps.ok /\ \E i \in 1..Len(steps.val) : steps.val[i] <= 0
        \/ sp.max_level <= sp.min_level
        \/ sp.num_reversals = 0

\* A step in which start_new_run took a frequency to test.
C6_RunStarted ==
    \/ app.first_run_flag /\ ~app'.first_run_flag /\ app'.current_freq # 0
    \/ ~app.first_run_flag /\ Len(app'.freqs) < Len(app.freqs)

\* C6: a run started while the session parameters hold a non-positive
\* step size, max_level <= min_level or zero reversals ends in an error
\* before any trial: no new staircase, no stimulus interval drawn, nothing
\* played, no key binding scheduled.  A staircase that exists never has
\* such values.
C6_MalformedConfigRejected ==
    [][/\ (C6_RunStarted /\ C6_Malformed(sessionpars)) =>
            /\ exc' \in {"ConfigurationError", "ValueError"}
            /\ ~(staircase'.ok /\ staircase'.datapoints = <<>>)
            /\ app'.stim_interval = app.stim_interval
            /\ sd'.played = sd.played
            /\ app'.bind_pending = app.bind_pending
       /\ staircase'.ok =>
            /\ \A i \in 1..Len(staircase'.step_sizes) :
                   staircase'.step_sizes[i] > 0
            /\ staircase'.min_level < staircase'.max_level
            /\ staircase'.target_reversals > 0]_vars

\* The first run was started with a malformed configuration and ended
\* with ConfigurationError: a frequency taken, no staircase, nothing played.
C6_Witness ==
    /\ exc = "ConfigurationError"
    /\ C6_Malformed(sessionpars)
    /\ ~app.first_run_flag
    /\ app.current_freq # 0
    /\ ~staircase.ok
    /\ app.stim_interval = 0
    /\ sd.played = <<>>

\* C8: as long as _calc_offset has not run, no step changes the desired or
\* the adjusted level or plays anything, and a run that gets as far as its
\* first trial ends with UncalibratedState.
C8_NoConversionBeforeCalibration ==
    [][~calmodel'.calibrated =>
          /\ sessionpars'.adjusted_level_dB = sessionpars.adjusted_level_dB
          /\ sessionpars'.desired_level_dB = sessionpars.desired_level_dB
          /\ sd'.played = sd.played
          /\ app'.bind_pending = app.bind_pending
          /\ staircase' # staircase => exc' = "UncalibratedState"]_vars

\* A run was started without calibration: the staircase stands, the trial
\* was refused with UncalibratedState and the levels are those loaded from
\* file.
C8_Witness ==
    /\ exc = "UncalibratedState"
    /\ ~calmodel.calibrated
    /\ staircase.ok
    /\ app.stim_interval # 0
    /\ sd.played = <<>>
    /\ sessionpars.adjusted_level_dB = TaskPars.adjusted_level_dB
    /\ sessionpars.desired_level_dB = TaskPars.desired_level_dB

---------------------------------------------------------------------------
(* Properties of playback, checked under SpecAudio.                        *)

\* The signal of an Audio object with its level applied.
C7_Levelled(ao) ==
    [ao.signal EXCEPT !.chans =
        [i \in 1..Len(ao.signal.chans) |->
            ScaledChan(ao.signal.chans[i], db2mag(ao.level))]]

\* The message boxes a step has shown.
C7_NewMsgs == SubSeq(msgs', Len(msgs) + 1, Len(msgs'))

\* A step in which play got past the device and the routing checks.
C7_LevelApplied ==
    LET routing == _format_routing(sessionpars.channel_routing)
    IN  /\ a'.ok
        /\ a'.signal.chans # <<>>
        /\ sessionpars.audio_device \in 1..Len(DeviceOutputs)
        /\ routing.ok
        /\ routing.val # <<>>
        /\ Len(routing.val) = a'.num_channels
        /\ \/ C7_NewMsgs = <<>>
           \/ C7_NewMsgs[Len(C7_NewMsgs)] \notin
                  {"Invalid Audio Type", "Missing Sampling Rate"}

\* C7: what sounddevice is given never exceeds full scale, with or without
\* the truncation to the device's outputs; a levelled signal that exceeds
\* full scale ends in the Clipping message box with nothing played; and
\* the signal held then is the levelled one, not one scaled down to fit.
C7_ClippingNeverPlayed ==
    [][/\ sd'.played # sd.played =>
            /\ MaxAbs(sd'.played[Len(sd'.played)].data) <= FullScale
            /\ MaxAbs(C7_Levelled(a')) <= FullScale
       /\ (C7_NewMsgs # <<>> /\ C7_NewMsgs[Len(C7_NewMsgs)] = "Clipping") =>
            /\ sd'.played = sd.played
            /\ a'.temp = C7_Levelled(a')
            /\ MaxAbs(a'.temp) > FullScale
       /\ (C7_LevelApplied /\ MaxAbs(C7_Levelled(a')) > FullScale) =>
            /\ C7_NewMsgs # <<>>
            /\ C7_NewMsgs[Len(C7_NewMsgs)] = "Clipping"
            /\ sd'.played = sd.played
            /\ exc' = ""]_vars

\* A signal whose negative excursion alone exceeds full scale after
\* levelling was refused: the Clipping box shown, nothing played.
C7_Witness ==
    /\ msgs # <<>>
    /\ msgs[Len(msgs)] = "Clipping"
    /\ a.ok
    /\ a.temp.chans[1].lo < -FullScale
    /\ a.temp.chans[1].hi <= FullScale
    /\ sd.played = <<>>

---------------------------------------------------------------------------
(* Properties of the sound-field summation, checked under SpecSummation.   *)

\* C11: for n >= 1 sources the level returned is the one whose power is
\* the desired power divided by n (n = 2 doubles the power: 3.0103 dB);
\* for one source it is the desired level itself; for 50 dB it is 46.9897
\* with two sources and 45.2288 with three, to 1e-4.
C11_SummationLevel ==
    (call.done /\ call.args[2] >= 1) =>
        LET desired_SPL == call.args[1]
            n == call.args[2]
        IN  /\ call.raised = ""
            /\ call.val <= desired_SPL
            /\ n = 1 => call.val = desired_SPL
            /\ n = 2 => Abs(desired_SPL - call.val - 30103) <= 1
            /\ n = 4 => Abs(desired_SPL - call.val - 2 * 30103) <= 1
            /\ (desired_SPL = dB(50) /\ n = 2) => Abs(call.val - 469897) <= 1
            /\ (desired_SPL = dB(50) /\ n = 3) => Abs(call.val - 452288) <= 1

\* 50 dB over three sources gave 45.2288.
C11_Witness ==
    /\ call.done
    /\ call.args = <<dB(50), 3>>
    /\ call.raised = ""
    /\ call.val = 452288


\* C12: for every channel count from 1 to the nine vetted phases,
\* create_stimulus returns a buffer of dur*fs rows (samples) by
\* num_stim_chans columns (channels), and does so for every duration of
\* at least two ramps; one second at 48000 Hz with three channels gives
\* 48000 x 3.
C12_StimulusShape ==
    (/\ call.op = "create_stimulus"
     /\ sessionpars.num_stim_chans \in 1..Len(degrees)) =>
        LET dur == call.args[1]
            fs == call.args[2]
        IN  /\ dur >= 2 * RampDur => call.raised = ""
            /\ call.raised = "" =>
                /\ app.stim.ndim = 2
                /\ app.stim.nsamples * 1000 = dur * fs
                /\ Len(app.stim.chans) = sessionpars.num_stim_chans
            /\ (dur = Sec(1) /\ fs = 48000
                    /\ sessionpars.num_stim_chans = 3) =>
                /\ app.stim.nsamples = 48000
                /\ Len(app.stim.chans) = 3

C12_Witness ==
    /\ call.op = "create_stimulus"
    /\ call.args = <<Sec(1), 48000>>
    /\ sessionpars.num_stim_chans = 3
    /\ call.raised = ""
    /\ app.stim.nsamples = 48000
    /\ Len(app.stim.chans) = 3


\* C13: a stimulus asked for with no channel is rejected with an error:
\* create_stimulus never returns a buffer for num_stim_chans = 0.
C13_ZeroChannelsRejected ==
    (/\ call.op = "create_stimulus"
     /\ sessionpars.num_stim_chans = 0) => call.raised # ""

\* The call that returns the empty 1-D buffer for no channel.
C13_Witness ==
    /\ call.op = "create_stimulus"
    /\ sessionpars.num_stim_chans = 0
    /\ call.raised = ""
    /\ app.stim = Signal(0, 1, <<>>)

\* C14: a stimulus of duration <= 0 is an empty signal, no sample in any
\* channel, and not an error, also once the 40 ms gate is applied to a
\* signal shorter than two ramps.
C14_EmptySignalForNoDuration ==
    (/\ call.op = "create_stimulus"
     /\ sessionpars.num_stim_chans \in 1..Len(degrees)
     /\ call.args[1] <= 0) =>
        /\ call.raised = ""
        /\ app.stim.nsamples = 0

\* The call whose gate meets a signal without samples.
C14_Witness ==
    /\ call.op = "create_stimulus"
    /\ sessionpars.num_stim_chans = 1
    /\ call.args[1] = 0
    /\ call.raised = "ValueError"


\* The vetted phases in radians.
C15_Candidates == {radians(degrees[i]) : i \in 1..Len(degrees)}

\* What a call of _get_random_phis returned for the n of the session.
C15_Returned ==
    /\ (/\ call.op = "_get_random_phis"
        /\ sessionpars.num_stim_chans \in 1..Len(degrees)) =>
            /\ call.raised = ""
            /\ Len(call.val) = sessionpars.num_stim_chans
            /\ \A i \in 1..Len(call.val) : call.val[i] \in C15_Candidates
            /\ \A i, j \in 1..Len(call.val) :
                  i # j => call.val[i] # call.val[j]
    /\ (/\ call.op = "_get_random_phis"
        /\ sessionpars.num_stim_chans > Len(degrees)) =>
            call.raised = "ValueError"

C16_TrialsNeverOverlap ==
    [][/\ app'.trial # app.trial => app.presented = 1
       /\ app'.keys_bound => app'.presented = 1]_vars

\* The keys bound by a pending after(10) callback once the run that was
\* to follow a submit failed to start: no trial was presented since that
\* submit.
C16_Witness ==
    /\ app.alive
    /\ app.keys_bound
    /\ app.presented = 0
    /\ app.trial >= 1
    /\ sessionpars.step_sizes = Steps_4_2_NoSpace


\* The order of a trial: the staircase level is read, corrected by the
\* reference level, by the summation and by the calibration offset, the
\* waveform is obtained and played.
C17_Order ==
    <<"level", "reference", "summation", "calibration", "waveform", "play">>

\* The device level derived from the level of the staircase.
C17_DerivedLevel(s, sp, freq) ==
    to_device_level(
        calc_presentation_lvl(dB(s.current_level), Hz(freq),
                              sp.num_stim_chans).val,
        sp.slm_offset)

UpdatedBySubmit ==
    add_response(staircase,
                 IF app.response = app.stim_interval THEN 1 ELSE -1)

\* A step whose submit ended the run.
C18_RunEnded ==
    /\ staircase.ok
    /\ app'.trial = app.trial + 1
    /\ ~UpdatedBySubmit.status

\* A step that called start_new_run.
C18_Started == (app.first_run_flag /\ ~app'.first_run_flag) \/ C18_RunEnded

\* C18: one fresh staircase per tested frequency.  The frequency list is
\* read once, at the first start_new_run; the frequencies are tested in
\* the order given, each exactly once; whenever a run ends a new Staircase
\* in its initial state replaces the one before; and the application
\* quits exactly when start_new_run is called with the list exhausted.
C18_OneStaircasePerFrequency ==
    [][/\ ~app.first_run_flag =>
              /\ app'.NUM_FREQS = app.NUM_FREQS
              /\ \/ app'.freqs = app.freqs
                 \/ app.freqs # <<>> /\ app'.freqs = Tail(app.freqs)
       /\ (app.first_run_flag /\ ~app'.first_run_flag /\ exc' # "ValueError")
              => <<app'.current_freq>> \o app'.freqs
                     = get_test_freqs(sessionpars).val
       /\ app'.freqs # app.freqs =>
              /\ C18_Started
              /\ staircase' = NewStaircase(sessionpars')
              /\ staircase'.ok
       /\ (C18_RunEnded /\ app.freqs # <<>>) =>
              /\ app'.current_freq = Head(app.freqs)
              /\ app'.freqs = Tail(app.freqs)
              /\ staircase' = NewStaircase(sessionpars')
              /\ staircase'.ok
       /\ (app.alive /\ ~app'.alive) <=>
              (C18_Started /\ ~app.first_run_flag /\ app.freqs = <<>>)]_vars

\* The run of the second frequency could not start: its frequency is taken
\* off the list and the finished staircase of the first still stands.
C18_Witness ==
    /\ app.alive
    /\ app.current_freq = 1000
    /\ app.freqs = <<>>
    /\ exc = "ValueError"
    /\ staircase.ok
    /\ ~staircase.status


\* A level in 1/10000 dB rounded to two decimal places, halves away from
\* zero.
C19_Round2(x) ==
    IF x >= 0 THEN ((x + 50) \div 100) * 100
    ELSE 0 - (((0 - x) + 50) \div 100) * 100

\* C19: calc_presentation_lvl returns the summation level of
\* stair_lvl + RETSPL[freq] rounded to two decimal places (45.4568165
\* becomes 45.46).
C19_RoundedToTwoDecimals ==
    (/\ call.op = "calc_presentation_lvl"
     /\ call.raised = "") =>
        LET summed == calc_RMS_based_on_sources(
                          call.args[1] + RETSPL(call.args[2]).val,
                          sessionpars.num_stim_chans).val
        IN  /\ call.val = C19_Round2(summed)
            /\ call.val % 100 = 0

\* 30 dB at 1000 Hz over two channels: 30.8 dB less 3.0103 dB, returned
\* as 27.7897 and not as 27.79.
C19_Witness ==
    /\ call.op = "calc_presentation_lvl"
    /\ call.args = <<dB(30), Hz(1000)>>
    /\ sessionpars.num_stim_chans = 2
    /\ call.raised = ""
    /\ call.val = 277897
    /\ C19_Round2(call.val) = 277900


\* What a step appended to the data file.
C20_Appended == SubSeq(csvfile', Len(csvfile) + 1, Len(csvfile'))

\* The record of the trial a step's submit answered: its index, its
\* frequency, the response and the reversal flag of the datapoint
\* add_response made, and the levels the trial was presented at.
C20_RecordOfTrial(r) ==
    LET dp == UpdatedBySubmit.datapoints[Len(UpdatedBySubmit.datapoints)]
    IN  /\ r.row.trial = app.trial + 1
        /\ r.row.trial = Len(csvfile) + 1
        /\ r.row.test_freq = app.current_freq
        /\ r.row.response = dp.response
        /\ r.row.reversal = dp.reversal
        /\ r.row.desired_level_dB = sessionpars.desired_level_dB
        /\ r.row.adjusted_level_dB = sessionpars.adjusted_level_dB

\* C20 as stated: every call of add_response saves exactly one record,
\* after the staircase update and before the next trial, in trial order,
\* with the trial index, the frequency, the response, the reversal flag
\* and the desired and calibrated levels; saved records are never changed
\* or removed.
C20_OneRecordPerResponse ==
    [][/\ IsPrefix(csvfile, csvfile')
       /\ app'.trial # app.trial =>
              /\ Len(C20_Appended) = 1
              /\ C20_RecordOfTrial(C20_Appended[1])
       /\ app'.trial = app.trial => C20_Appended = <<>>]_vars

\* C20, amended: the same, except that a call of add_response whose
\* record cannot be written saves nothing; the application then shows
\* Access Denied and is destroyed.
C20_OneRecordUnlessDenied ==
    [][/\ IsPrefix(csvfile, csvfile')
       /\ app'.trial # app.trial =>
              \/ /\ Len(C20_Appended) = 1
                 /\ C20_RecordOfTrial(C20_Appended[1])
              \/ /\ C20_Appended = <<>>
                 /\ ~app'.alive
                 /\ msgs' = Append(msgs, "Access Denied")
       /\ app'.trial = app.trial => C20_Appended = <<>>]_vars

\* Three trials answered and saved, the third after a change of level.
C20_Witness ==
    /\ Len(csvfile) = 3
    /\ \A i \in 1..3 : csvfile[i].row.trial = i
    /\ csvfile[1].header
    /\ ~csvfile[2].header
    /\ csvfile[3].row.desired_level_dB # csvfile[1].row.desired_level_dB


C22_NoResponseAfterCompletion ==
    [][/\ app'.trial # app.trial => staircase.status
       /\ C18_RunEnded =>
              \/ ~app'.alive
              \/ staircase'.status /\ staircase'.datapoints = <<>>
       /\ Len(sd'.played) > Len(sd.played) => staircase'.status]_vars

\* A complete staircase left standing in a live application: the step
\* size typed during the run made the constructor of the next run refuse,
\* so the next submit has no staircase but the complete one to call.
C22_Witness ==
    /\ app.alive
    /\ staircase.ok
    /\ ~staircase.status
    /\ Len(staircase.reversals) = staircase.target_reversals
    /\ app.trial = 3
    /\ sessionpars.step_sizes = Steps_0
    /\ exc = "ConfigurationError"


\* C23: a signal reaches sounddevice only when the device is valid, the
\* routing is not empty and as long as the signal has channels, the level
\* is applied and nothing clips; the checks are made in this order, the
\* first that fails deciding the error; and what is played has as many
\* channels as its routing has entries, no more than the device has
\* outputs.
C23_PlayedAfterChecks ==
    [][LET routing == _format_routing(sessionpars.channel_routing)
           device_ok == sessionpars.audio_device \in {1, 2}
           routing_ok ==
               routing.val # <<>> /\ Len(routing.val) = a'.num_channels
           shown(title) ==
               \E i \in 1..Len(C7_NewMsgs) : C7_NewMsgs[i] = title
       IN  /\ Len(sd'.played) > Len(sd.played) =>
                  LET p == sd'.played[Len(sd'.played)]
                      n == Len(p.data.chans)
                  IN  /\ device_ok
                      /\ routing_ok
                      /\ p.data.chans = SubSeq(C7_Levelled(a').chans, 1, n)
                      /\ MaxAbs(C7_Levelled(a')) <= FullScale
                      /\ n = Len(p.mapping)
                      /\ n >= 1
                      /\ n <= DeviceOutputs[sessionpars.audio_device]
                      /\ p.mapping = SubSeq(routing.val, 1, n)
                      /\ ~shown("Invalid Device")
                      /\ ~shown("Invalid Routing")
                      /\ ~shown("Clipping")
           /\ shown("Invalid Device") => ~device_ok
           /\ shown("Invalid Routing") => device_ok /\ ~routing_ok
           /\ shown("Clipping") =>
                  /\ device_ok
                  /\ routing_ok
                  /\ a'.temp = C7_Levelled(a')
           /\ (/\ a'.ok
               /\ a'.signal.chans # <<>>
               /\ routing.ok
               /\ ~shown("Invalid Audio Type")
               /\ ~shown("Missing Sampling Rate")
               /\ <<a, sd, msgs, exc>>' # <<a, sd, msgs, exc>>) =>
                  IF ~device_ok THEN shown("Invalid Device")
                  ELSE IF ~routing_ok THEN shown("Invalid Routing")
                  ELSE IF MaxAbs(C7_Levelled(a')) > FullScale
                  THEN shown("Clipping")
                  ELSE Len(sd'.played) > Len(sd.played) \/ exc' # ""]_vars

\* Two channels routed to two outputs and played on the device that has
\* one: one channel and one routing entry were handed on.
C23_Witness ==
    /\ Len(sd.played) = 1
    /\ a.num_channels = 2
    /\ sessionpars.audio_device = 1
    /\ Len(_format_routing(sessionpars.channel_routing).val) = 2
    /\ Len(sd.played[1].data.chans) = 1
    /\ sd.played[1].mapping = <<1>>


\* C24: present_audio plays only the Audio object it created in the same
\* call.  When the creation fails (invalid audio type, missing sampling
\* rate, audio file not found) nothing is played: neither the audio asked
\* for nor an Audio object left from an earlier call.
C24_PlaysOnlyWhatItCreated ==
    [][(\E i \in 1..Len(C7_NewMsgs) :
           C7_NewMsgs[i] \in {"Invalid Audio Type", "Missing Sampling Rate",
                              "File Not Found"})
          => /\ sd'.played = sd.played
             /\ a' = a]_vars

\* The audio file of the second call was not found, and the Audio object
\* of the first call was played a second time.
C24_Witness ==
    /\ msgs = <<"File Not Found">>
    /\ "session" \in app.dialogs
    /\ Len(sd.played) = 2
    /\ sd.played[2].data.chans = a.temp.chans
    /\ a.ok


\* C25: a trial whose stimulus was not played because of a playback error
\* (clipping, invalid device, invalid routing) is aborted: the keys 1 and
\* 2 are not bound for it, and no response to it reaches the staircase or
\* the data file.
C25_UnplayedTrialAborted ==
    [][/\ (\E i \in 1..Len(C7_NewMsgs) :
              C7_NewMsgs[i] \in {"Clipping", "Invalid Device",
                                 "Invalid Routing"})
             => app'.bind_pending = app.bind_pending
       /\ app'.keys_bound => app'.log = C17_Order
       /\ app'.trial # app.trial => app.log = C17_Order
       /\ Len(csvfile') > Len(csvfile) => app.log = C17_Order]_vars

\* A response on record for a trial that ended in the Clipping box:
\* nothing was ever played.
C25_Witness ==
    /\ sd.played = <<>>
    /\ msgs # <<>>
    /\ msgs[1] = "Ready"
    /\ \E i \in 1..Len(msgs) : msgs[i] = "Clipping"
    /\ Len(csvfile) >= 1
    /\ Len(staircase.datapoints) >= 1


\* C26: when the record of a trial cannot be saved, nothing is written
\* for the trial, the application is shut down, and _on_submit stops
\* there: the trial counter is not advanced, no trial is presented and no
\* run of a next frequency is started.
C26_FailedSaveStopsSubmit ==
    [][(\E i \in 1..Len(C7_NewMsgs) : C7_NewMsgs[i] = "Access Denied") =>
           /\ csvfile' = csvfile
           /\ ~app'.alive
           /\ app'.trial = app.trial
           /\ sd'.played = sd.played
           /\ app'.stim_interval = app.stim_interval
           /\ app'.freqs = app.freqs
           /\ app'.current_freq = app.current_freq]_vars

\* The first submit of a run with the data file write-protected: nothing
\* saved, the application destroyed, the trial counter at 1, and the
\* handler ended by unbind_keys on the destroyed window.
C26_Witness ==
    /\ ~app.alive
    /\ msgs # <<>>
    /\ msgs[Len(msgs)] = "Access Denied"
    /\ csvfile = <<>>
    /\ app.trial = 1
    /\ Len(staircase.datapoints) = 1
    /\ Len(sd.played) = 1
    /\ exc = "TclError"


\* The rows of the file of one subject and condition, in file order.
C27_File(file, name) ==
    LET OfName(r) == r.name = name
    IN  SelectSeq(file, OfName)

\* C27: the records saved under one subject and condition go to one file
\* of exactly one header row, written by the first save, and one data row
\* per record in the order saved; a later save appends, and neither the
\* header nor a row written before is ever rewritten.
C27_OneHeaderThenRows ==
    /\ [](\A i \in 1..Len(csvfile) :
             LET f == C27_File(csvfile, csvfile[i].name)
             IN  /\ f[1].header
                 /\ \A j \in 2..Len(f) : ~f[j].header)
    /\ [][csvfile' # csvfile =>
             LET name == <<sessionpars.subject, sessionpars.condition>>
                 new == csvfile'[Len(csvfile')]
             IN  /\ csvfile' = Append(csvfile, new)
                 /\ new.name = name
                 /\ new.header <=> C27_File(csvfile, name) = <<>>
                 /\ C27_File(csvfile', name)
                        = Append(C27_File(csvfile, name), new)
                 /\ \A i \in 1..Len(csvfile) :
                        csvfile[i].name # name =>
                            C27_File(csvfile', csvfile[i].name)
                                = C27_File(csvfile, csvfile[i].name)]_vars

\* Two records of one subject, one of another, and a third of the first:
\* its file has the header of its first save and three rows in order.
C27_Witness ==
    /\ Len(csvfile) = 4
    /\ csvfile[3].name # csvfile[1].name
    /\ LET f == C27_File(csvfile, csvfile[1].name)
       IN  /\ Len(f) = 3
           /\ f[1].header
           /\ ~f[3].header
           /\ f[3].row.trial = 4
    /\ csvfile[3].header


\* C28: the response a submit hands to the staircase is a selection made
\* after the presentation of the trial it answers: a submit with no key 1
\* or 2 pressed in the current trial does not use the selection of an
\* earlier trial, and a submit before any selection or before any run
\* leaves the staircase alone.
C28_FreshSelection ==
    [][/\ app'.trial # app.trial => app.selected
       /\ (app.response = 0 \/ ~staircase.ok) =>
              /\ app'.trial = app.trial
              /\ staircase.ok => staircase' = staircase]_vars

\* Two responses on record and the keys bound for the first trial only:
\* the second submit came before the keys of the second trial were bound
\* and was scored with the selection of the first.
C28_Witness ==
    /\ app.alive
    /\ exc = ""
    /\ app.trial = 2
    /\ Len(staircase.datapoints) = 2
    /\ Len(csvfile) = 2
    /\ app.bind_pending = 2
    /\ ~app.keys_bound


\* The last n reversal trials of one subject at one frequency.
C29_OwnReversals(data, sub, freq, n) ==
    LET Own(r) == r.subject = sub /\ r.test_freq = freq /\ r.reversal
        own == SelectSeq(data, Own)
    IN  SubSeq(own, Max2(1, Len(own) - n + 1), Len(own))

\* C29: the threshold score(num_reversals) reports for a subject and a
\* frequency is the mean desired level of the last num_reversals reversal
\* trials of that subject at that frequency; the trials of other subjects
\* and of other frequencies do not enter it.
C29_ThresholdOfSubjectAndFrequency ==
    (call.op = "score" /\ call.raised = "") =>
        \A k \in 1..Len(call.val) :
            LET t == call.val[k]
                own == C29_OwnReversals(csvfile, t.subject, t.freq,
                                        call.args[1])
                own_sum == series_sum([i \in 1..Len(own) |->
                                          own[i].desired_level_dB])
            IN  /\ (t.n = 0) <=> (own = <<>>)
                /\ t.sum * Len(own) = own_sum * t.n

\* One reversal each of two subjects at 500 Hz, at 20 dB and at 30 dB:
\* scored over the last reversal, both subjects are given 30 dB.
C29_Witness ==
    /\ call.op = "score"
    /\ call.args = <<1>>
    /\ csvfile = <<[subject |-> "P1234", test_freq |-> 500,
                    reversal |-> TRUE, desired_level_dB |-> 20],
                   [subject |-> "P5678", test_freq |-> 500,
                    reversal |-> TRUE, desired_level_dB |-> 30]>>
    /\ call.val = <<[subject |-> "P1234", freq |-> 500, sum |-> 30, n |-> 1],
                    [subject |-> "P5678", freq |-> 500, sum |-> 30, n |-> 1]>>


\* The error boxes of the session dialog.
C30_Errors == {"Not Enough Reversals", "Invalid Levels"}

\* C30: the session dialog sends its save event and closes only when the
\* number of reversals is at least the number of step sizes and max_level
\* exceeds min_level; when a check fails it shows an error, stays open and
\* sends nothing; and a run started after a rejection does not use the
\* values rejected: its parameters pass both checks.
C30_RejectedValuesUnused ==
    [][/\ (\E i \in 1..Len(C7_NewMsgs) : C7_NewMsgs[i] \in C30_Errors) =>
              /\ ~(_check_reversals(sessionpars) /\ _check_levels(sessionpars))
              /\ "session" \in app'.dialogs
              /\ sessionpars_model' = sessionpars_model
       /\ ("session" \in app.dialogs
              /\ sessionpars_model' # sessionpars_model) =>
              /\ _check_reversals(sessionpars)
              /\ _check_levels(sessionpars)
              /\ "session" \notin app'.dialogs
              /\ sessionpars_model' = sessionpars
       /\ (/\ \E i \in 1..Len(msgs) : msgs[i] \in C30_Errors
           /\ staircase' # staircase
           /\ staircase'.ok
           /\ staircase'.datapoints = <<>>) =>
              /\ _check_reversals(sessionpars')
              /\ _check_levels(sessionpars')]_vars

\* Step sizes "4, 2" with one reversal were refused by the dialog, the
\* dialog was closed, and the run started has these step sizes and this
\* number of reversals.
C30_Witness ==
    /\ \E i \in 1..Len(msgs) : msgs[i] = "Not Enough Reversals"
    /\ staircase.ok
    /\ staircase.step_sizes = <<4, 2>>
    /\ staircase.target_reversals = 1
    /\ sessionpars.step_sizes = Steps_4_2
    /\ Len(sd.played) >= 1
    /\ app.log = C17_Order

===========================================================================
